---- MODULE Spec2Model ----
(***************************************************************************)
(* State-machine model of the Game Boy DMG emulator core:                  *)
(*   - the video timing engine      (src/src/emulator/ppu.rs)              *)
(*   - the cartridge controller     (src/src/emulator/cartridge.rs)        *)
(*   - the address space            (src/src/emulator/memory.rs)           *)
(*   - the top-level emulator       (src/src/emulator/mod.rs)              *)
(*   - the audio engine             (src/src/emulator/apu.rs)              *)
(* The components share no state in the source, so each has its own        *)
(* specification (SpecPpu, SpecCart, SpecMmu) over its own variables; the  *)
(* variables of the other components stay at their idle values. SpecLoad   *)
(* gives one ROM image to each entry point that takes one; SpecWord calls  *)
(* the word helpers of the address space under either build; SpecApu ticks *)
(* the audio engine from Apu::new and SpecMix ticks it through an emission *)
(* from channel settings drawn from bounded sets.                          *)
(*                                                                         *)
(* Integer overflow in the source panics when the build checks overflow    *)
(* (the debug profile) and wraps otherwise (the release profile); the      *)
(* variable overflow_checks holds which of the two the build at hand does. *)
(*                                                                         *)
(* Arrays that the source creates zero-filled ([0; N], vec![0; n]) are     *)
(* kept sparse: a function from the indices that hold a non-zero byte to   *)
(* that byte, next to the array's length. Get/Put below read and write     *)
(* such an array; an index at or beyond the length is a Rust panic.        *)
(***************************************************************************)
EXTENDS Integers, Sequences, FiniteSets, TLC

VARIABLES
    ppu,        \* Ppu: scanline, mode, cycles, lcdc, frame_buffer
    ticks,      \* number of Ppu::step calls since Ppu::new
    past,       \* the (scanline, mode, cycles) the Ppu had 70224 steps ago
    dwell,      \* number of steps since the Ppu entered its current mode
    rendered,   \* frame-buffer indices written by the last Ppu::step
    renders,    \* number of Ppu::step calls that wrote the frame buffer
    cart,       \* Cartridge, or the construction error
    nops,       \* number of Cartridge::write calls since Cartridge::new
    fault,      \* the panic of a Cartridge access, once one has happened
    mmu,        \* Mmu: the backing stores
    mlast,      \* last Mmu operation, with the byte a read returned
    mops,       \* number of Mmu::write_byte calls since Mmu::new
    rom,        \* the ROM image handed to the load entry points
    gb,         \* GameBoy: its last call and the result of it
    gsteps,     \* number of GameBoy::step calls since GameBoy::new
    apu,        \* Apu: counters, buffer, the four channels
    emitted,    \* number of Apu::generate_sample calls completed
    afault,     \* the panic of an Apu::step call, once one has happened
    overflow_checks  \* whether the build panics on integer overflow

ppuVars  == <<ppu, ticks, past, dwell, rendered, renders>>
cartVars == <<cart, nops, fault>>
mmuVars  == <<mmu, mlast, mops>>
romVars  == <<rom, gb, gsteps>>
apuVars  == <<apu, emitted, afault>>
vars     == <<ppu, ticks, past, dwell, rendered, renders, cart, nops, fault,
              mmu, mlast, mops, rom, gb, gsteps, apu, emitted, afault,
              overflow_checks>>

(***************************************************************************)
(* Bit operations on naturals, as the source's & and | on u8/u16/usize.    *)
(***************************************************************************)
RECURSIVE BitAnd(_, _)
BitAnd(a, b) ==
    IF a = 0 \/ b = 0 THEN 0
    ELSE (IF a % 2 = 1 /\ b % 2 = 1 THEN 1 ELSE 0) + 2 * BitAnd(a \div 2, b \div 2)

RECURSIVE BitOr(_, _)
BitOr(a, b) ==
    IF a = 0 THEN b
    ELSE IF b = 0 THEN a
    ELSE (IF a % 2 = 1 \/ b % 2 = 1 THEN 1 ELSE 0) + 2 * BitOr(a \div 2, b \div 2)

\* A zero-filled array kept sparse: EmptyArr holds 0 everywhere.
EmptyArr == <<>>
Get(arr, i) == IF i \in DOMAIN arr THEN arr[i] ELSE 0
Put(arr, i, v) ==
    IF v = 0
    THEN [k \in (DOMAIN arr) \ {i} |-> arr[k]]
    ELSE [k \in (DOMAIN arr) \cup {i} |-> IF k = i THEN v ELSE arr[k]]

\* The result of an access that panics (index out of bounds).
PANIC == 0 - 1

\* The values of a u8.
Bytes == 0 .. 255

(***************************************************************************)
(* Video timing engine: src/src/emulator/ppu.rs                            *)
(***************************************************************************)
LCD_WIDTH  == 160
LCD_HEIGHT == 144

\* Ppu::new
PpuNew ==
    [ scanline     |-> 0,
      mode         |-> "OamScan",
      cycles       |-> 0,
      lcdc         |-> \h91,
      frame_buffer |-> EmptyArr,
      written      |-> {} ]

\* Ppu::render_background, render_window, render_sprites: empty bodies.
render_background(p) == p
render_window(p)     == p
render_sprites(p)    == p

\* The frame-buffer indices Ppu::render_scanline writes for the Ppu p.
render_indices(p) ==
    IF p.scanline >= 144 THEN {}
    ELSE { p.scanline * LCD_WIDTH + x : x \in 0 .. (LCD_WIDTH - 1) }

\* Ppu::render_scanline. The frame-buffer indices it stores to are logged
\* in written.
render_scanline(p) ==
    IF p.scanline >= 144 THEN p
    ELSE
        LET cleared == [p EXCEPT !.frame_buffer =
                            [k \in (DOMAIN p.frame_buffer) \ render_indices(p)
                                |-> p.frame_buffer[k]],
                                 !.written = p.written \cup render_indices(p)]
            bg  == IF BitAnd(cleared.lcdc, \h01) # 0 THEN render_background(cleared) ELSE cleared
            win == IF BitAnd(bg.lcdc, \h20) # 0 THEN render_window(bg) ELSE bg
            spr == IF BitAnd(win.lcdc, \h02) # 0 THEN render_sprites(win) ELSE win
        IN  spr

\* Ppu::step, with the threshold of the vertical-blank wrap changed.
step_short_vblank(p) ==
    LET c == p.cycles + 1 IN
    CASE p.mode = "OamScan" ->
            IF c >= 80 THEN [p EXCEPT !.cycles = 0, !.mode = "Drawing"]
            ELSE [p EXCEPT !.cycles = c]
      [] p.mode = "Drawing" ->
            IF c >= 172
            THEN render_scanline([p EXCEPT !.cycles = 0, !.mode = "HBlank"])
            ELSE [p EXCEPT !.cycles = c]
      [] p.mode = "HBlank" ->
            IF c >= 204
            THEN IF p.scanline + 1 >= 144
                 THEN [p EXCEPT !.cycles = 0, !.scanline = p.scanline + 1, !.mode = "VBlank"]
                 ELSE [p EXCEPT !.cycles = 0, !.scanline = p.scanline + 1, !.mode = "OamScan"]
            ELSE [p EXCEPT !.cycles = c]
      [] p.mode = "VBlank" ->
            IF c >= 456
            THEN IF p.scanline + 1 >= 153
                 THEN [p EXCEPT !.cycles = 0, !.scanline = 0, !.mode = "OamScan"]
                 ELSE [p EXCEPT !.cycles = 0, !.scanline = p.scanline + 1]
            ELSE [p EXCEPT !.cycles = c]

\* Ppu::step, with the Draw budget taken from the HorizontalBlank budget.
step_long_draw(p) ==
    LET c == p.cycles + 1 IN
    CASE p.mode = "OamScan" ->
            IF c >= 80 THEN [p EXCEPT !.cycles = 0, !.mode = "Drawing"]
            ELSE [p EXCEPT !.cycles = c]
      [] p.mode = "Drawing" ->
            IF c >= 174
            THEN render_scanline([p EXCEPT !.cycles = 0, !.mode = "HBlank"])
            ELSE [p EXCEPT !.cycles = c]
      [] p.mode = "HBlank" ->
            IF c >= 202
            THEN IF p.scanline + 1 >= 144
                 THEN [p EXCEPT !.cycles = 0, !.scanline = p.scanline + 1, !.mode = "VBlank"]
                 ELSE [p EXCEPT !.cycles = 0, !.scanline = p.scanline + 1, !.mode = "OamScan"]
            ELSE [p EXCEPT !.cycles = c]
      [] p.mode = "VBlank" ->
            IF c >= 456
            THEN IF p.scanline + 1 >= 154
                 THEN [p EXCEPT !.cycles = 0, !.scanline = 0, !.mode = "OamScan"]
                 ELSE [p EXCEPT !.cycles = 0, !.scanline = p.scanline + 1]
            ELSE [p EXCEPT !.cycles = c]

\* Ppu::step rendering a scanline when its OamScan begins instead of when
\* its Drawing ends.
step_renders_after_hblank(p) ==
    LET c == p.cycles + 1 IN
    CASE p.mode = "OamScan" ->
            IF c >= 80 THEN [p EXCEPT !.cycles = 0, !.mode = "Drawing"]
            ELSE [p EXCEPT !.cycles = c]
      [] p.mode = "Drawing" ->
            IF c >= 172
            THEN [p EXCEPT !.cycles = 0, !.mode = "HBlank"]
            ELSE [p EXCEPT !.cycles = c]
      [] p.mode = "HBlank" ->
            IF c >= 204
            THEN IF p.scanline + 1 >= 144
                 THEN [p EXCEPT !.cycles = 0, !.scanline = p.scanline + 1, !.mode = "VBlank"]
                 ELSE render_scanline([p EXCEPT !.cycles = 0, !.scanline = p.scanline + 1,
                                                !.mode = "OamScan"])
            ELSE [p EXCEPT !.cycles = c]
      [] p.mode = "VBlank" ->
            IF c >= 456
            THEN IF p.scanline + 1 >= 154
                 THEN [p EXCEPT !.cycles = 0, !.scanline = 0, !.mode = "OamScan"]
                 ELSE [p EXCEPT !.cycles = 0, !.scanline = p.scanline + 1]
            ELSE [p EXCEPT !.cycles = c]

\* Ppu::step never leaving VBlank once scanline 153 is over.
step_stays_in_vblank(p) ==
    LET c == p.cycles + 1 IN
    CASE p.mode = "OamScan" ->
            IF c >= 80 THEN [p EXCEPT !.cycles = 0, !.mode = "Drawing"]
            ELSE [p EXCEPT !.cycles = c]
      [] p.mode = "Drawing" ->
            IF c >= 172
            THEN render_scanline([p EXCEPT !.cycles = 0, !.mode = "HBlank"])
            ELSE [p EXCEPT !.cycles = c]
      [] p.mode = "HBlank" ->
            IF c >= 204
            THEN IF p.scanline + 1 >= 144
                 THEN [p EXCEPT !.cycles = 0, !.scanline = p.scanline + 1, !.mode = "VBlank"]
                 ELSE [p EXCEPT !.cycles = 0, !.scanline = p.scanline + 1, !.mode = "OamScan"]
            ELSE [p EXCEPT !.cycles = c]
      [] p.mode = "VBlank" ->
            IF c >= 456
            THEN IF p.scanline + 1 >= 154
                 THEN [p EXCEPT !.cycles = 0]
                 ELSE [p EXCEPT !.cycles = 0, !.scanline = p.scanline + 1]
            ELSE [p EXCEPT !.cycles = c]

\* Ppu::step
step(p) ==
    LET c == p.cycles + 1 IN
    CASE p.mode = "OamScan" ->
            IF c >= 80 THEN [p EXCEPT !.cycles = 0, !.mode = "Drawing"]
            ELSE [p EXCEPT !.cycles = c]
      [] p.mode = "Drawing" ->
            IF c >= 172
            THEN render_scanline([p EXCEPT !.cycles = 0, !.mode = "HBlank"])
            ELSE [p EXCEPT !.cycles = c]
      [] p.mode = "HBlank" ->
            IF c >= 204
            THEN IF p.scanline + 1 >= 144
                 THEN [p EXCEPT !.cycles = 0, !.scanline = p.scanline + 1, !.mode = "VBlank"]
                 ELSE [p EXCEPT !.cycles = 0, !.scanline = p.scanline + 1, !.mode = "OamScan"]
            ELSE [p EXCEPT !.cycles = c]
      [] p.mode = "VBlank" ->
            IF c >= 456
            THEN IF p.scanline + 1 >= 154
                 THEN [p EXCEPT !.cycles = 0, !.scanline = 0, !.mode = "OamScan"]
                 ELSE [p EXCEPT !.cycles = 0, !.scanline = p.scanline + 1]
            ELSE [p EXCEPT !.cycles = c]

\* Ppu::is_vblank taking either blanking mode for VBlank.
is_vblank_any_blank(p) == p.mode \in {"VBlank", "HBlank"}

\* Ppu::is_vblank
is_vblank(p) == p.mode = "VBlank"

\* The timing triple of a Ppu.
Timing(p) == <<p.scanline, p.mode, p.cycles>>

\* Number of Ppu::step calls the model follows (two frames and a little more).
MaxTicks == 140500

\* One call of Ppu::step. past follows the same engine 70224 steps behind;
\* dwell counts the steps spent in the current mode; rendered takes the
\* log of the frame-buffer stores of this call.
PpuStep ==
    /\ ticks < MaxTicks
    /\ ppu' = [step(ppu) EXCEPT !.written = {}]
    /\ ticks' = ticks + 1
    /\ past' = IF ticks >= 70224 THEN [step(past) EXCEPT !.written = {}] ELSE past
    /\ dwell' = IF step(ppu).mode # ppu.mode THEN 0 ELSE dwell + 1
    /\ rendered' = step(ppu).written
    /\ renders' = IF step(ppu).written # {} THEN renders + 1 ELSE renders
    /\ UNCHANGED <<cartVars, mmuVars, romVars, apuVars, overflow_checks>>

(***************************************************************************)
(* Cartridge controller: src/src/emulator/cartridge.rs                     *)
(***************************************************************************)

\* A ROM image is described by its length, the header bytes the source
\* reads and the way the rest is filled; RomByte gives every byte of it.
\* Outside the header a byte encodes its physical 16KB bank, so that reads
\* tell the banks apart: a "banked" image carries the bank in every byte, a
\* "marked" image carries it in the first byte of each bank and is zero
\* elsewhere.
RomByte(img, i) ==
    CASE i = \h147 -> img.ctype
      [] i = \h148 -> img.rom_size
      [] i = \h149 -> img.ram_size
      [] i = \h14D -> img.header_checksum
      [] OTHER     ->
            IF img.fill = "banked"
            THEN ((i \div \h4000) * 16 + (i % 16) + 1) % 256
            ELSE IF i % \h4000 = 0 THEN ((i \div \h4000) * 16 + 1) % 256 ELSE 0

\* The offsets of an image that can hold a non-zero byte.
Support(img) ==
    IF img.fill = "banked"
    THEN 0 .. (img.len - 1)
    ELSE { i \in {\h147, \h148, \h149, \h14D}
                   \cup { b * \h4000 : b \in 0 .. (img.len \div \h4000) } :
           i < img.len }

\* The header-checksum loop of Cartridge::parse_header from offset i on:
\* checksum = checksum.wrapping_sub(rom_data[i]).wrapping_sub(1) on a u8.
RECURSIVE checksum_from(_, _, _)
checksum_from(img, i, checksum) ==
    IF i >= \h14D THEN checksum
    ELSE checksum_from(img, i + 1, (checksum - RomByte(img, i) - 1) % 256)

\* Cartridge::determine_mbc_type, taking type byte 0x04 for a type-1
\* controller.
determine_mbc_type_accepts_04(cartridge_type) ==
    CASE cartridge_type = \h00 -> "None"
      [] cartridge_type \in \h01 .. \h04 -> "Mbc1"
      [] cartridge_type \in \h05 .. \h06 -> "Mbc2"
      [] cartridge_type \in \h0F .. \h13 -> "Mbc3"
      [] cartridge_type \in \h19 .. \h1E -> "Mbc5"
      [] OTHER -> "Unsupported"

\* Cartridge::determine_mbc_type (the Ok arm; "Unsupported" stands for Err)
determine_mbc_type(cartridge_type) ==
    CASE cartridge_type = \h00 -> "None"
      [] cartridge_type \in \h01 .. \h03 -> "Mbc1"
      [] cartridge_type \in \h05 .. \h06 -> "Mbc2"
      [] cartridge_type \in \h0F .. \h13 -> "Mbc3"
      [] cartridge_type \in \h19 .. \h1E -> "Mbc5"
      [] OTHER -> "Unsupported"

\* Cartridge::get_ram_size
get_ram_size(ram_size_code) ==
    CASE ram_size_code = \h00 -> 0
      [] ram_size_code = \h01 -> 2 * 1024
      [] ram_size_code = \h02 -> 8 * 1024
      [] ram_size_code = \h03 -> 32 * 1024
      [] ram_size_code = \h04 -> 128 * 1024
      [] ram_size_code = \h05 -> 64 * 1024
      [] OTHER -> 0

\* Cartridge::parse_header, rejecting an image whose stored header checksum
\* differs from the computed one.
parse_header_rejects_mismatch(img) ==
    IF img.len < \h150
    THEN [ok |-> FALSE, err |-> "InvalidRom"]
    ELSE LET checksum == checksum_from(img, \h134, 0) IN
         IF checksum # RomByte(img, \h14D)
         THEN [ok |-> FALSE, err |-> "InvalidRom"]
         ELSE [ok |-> TRUE,
               cartridge_type  |-> RomByte(img, \h147),
               rom_size        |-> RomByte(img, \h148),
               ram_size        |-> RomByte(img, \h149),
               header_checksum |-> RomByte(img, \h14D),
               warned          |-> FALSE]

\* Cartridge::parse_header: the fields the controller uses, the stored
\* header checksum, and whether the mismatch warning was logged.
parse_header(img) ==
    IF img.len < \h150
    THEN [ok |-> FALSE, err |-> "InvalidRom"]
    ELSE LET checksum == checksum_from(img, \h134, 0) IN
         [ok |-> TRUE,
          cartridge_type  |-> RomByte(img, \h147),
          rom_size        |-> RomByte(img, \h148),
          ram_size        |-> RomByte(img, \h149),
          header_checksum |-> RomByte(img, \h14D),
          warned          |-> (checksum # RomByte(img, \h14D))]

\* Cartridge::new
CartridgeNew(img) ==
    IF img.len < \h8000 THEN [ok |-> FALSE, err |-> "InvalidRom"]
    ELSE LET header == parse_header(img) IN
         IF ~header.ok THEN header
         ELSE IF determine_mbc_type(header.cartridge_type) = "Unsupported"
         THEN [ok |-> FALSE, err |-> "UnsupportedCartridge",
               code |-> header.cartridge_type]
         ELSE [ok |-> TRUE,
               header |-> header,
               mbc_type |-> determine_mbc_type(header.cartridge_type),
               rom_data |-> img,
               ram_len  |-> get_ram_size(header.ram_size),
               ram_data |-> EmptyArr,
               current_rom_bank |-> 1,
               current_ram_bank |-> 0,
               ram_enabled |-> FALSE,
               banking_mode |-> 0]

\* Index into rom_data of a read in the switchable window 0x4000-0x7FFF.
rom_index(c, address) == c.current_rom_bank * \h4000 + (address - \h4000)

\* Index into ram_data of a banked access in the window 0xA000-0xBFFF.
ram_index(c, address) == c.current_ram_bank * \h2000 + (address - \hA000)

\* Cartridge::read; PANIC when the index is out of bounds.
read(c, address) ==
    CASE address \in \h0000 .. \h3FFF ->
            IF address < c.rom_data.len THEN RomByte(c.rom_data, address) ELSE PANIC
      [] address \in \h4000 .. \h7FFF ->
            IF rom_index(c, address) < c.rom_data.len
            THEN RomByte(c.rom_data, rom_index(c, address))
            ELSE PANIC
      [] address \in \hA000 .. \hBFFF ->
            IF c.ram_enabled /\ c.ram_len # 0
            THEN IF ram_index(c, address) < c.ram_len
                 THEN Get(c.ram_data, ram_index(c, address))
                 ELSE PANIC
            ELSE \hFF
      [] OTHER -> \hFF

\* The outcome of a write: the cartridge after it, or a panic that left the
\* cartridge as it was.
Done(c)     == [panic |-> FALSE, cart |-> c]
Panicked(c) == [panic |-> TRUE, cart |-> c]

\* self.ram_data[index] = value
ram_store(c, index, value) ==
    IF index < c.ram_len
    THEN Done([c EXCEPT !.ram_data = Put(c.ram_data, index, value)])
    ELSE Panicked(c)

\* Cartridge::handle_mbc1_write, without the coercion of ROM bank 0 to 1.
handle_mbc1_write_no_coercion(c, address, value) ==
    CASE address \in \h0000 .. \h1FFF ->
            Done([c EXCEPT !.ram_enabled = (BitAnd(value, \h0F) = \h0A)])
      [] address \in \h2000 .. \h3FFF ->
            Done([c EXCEPT !.current_rom_bank = BitAnd(value, \h1F)])
      [] address \in \h4000 .. \h5FFF ->
            IF c.banking_mode = 0
            THEN LET upper_bits == BitAnd(value, \h03) * 32 IN
                 Done([c EXCEPT !.current_rom_bank =
                                    BitOr(BitAnd(c.current_rom_bank, \h1F), upper_bits)])
            ELSE Done([c EXCEPT !.current_ram_bank = BitAnd(value, \h03)])
      [] address \in \h6000 .. \h7FFF ->
            Done([c EXCEPT !.banking_mode = BitAnd(value, \h01)])
      [] address \in \hA000 .. \hBFFF ->
            IF c.ram_enabled /\ c.ram_len # 0
            THEN ram_store(c, ram_index(c, address), value)
            ELSE Done(c)
      [] OTHER -> Done(c)

\* Cartridge::handle_mbc1_write, with 0x4000-0x5FFF always taken as the upper
\* ROM-bank bits, whatever the banking mode.
handle_mbc1_write_mode_ignored(c, address, value) ==
    CASE address \in \h0000 .. \h1FFF ->
            Done([c EXCEPT !.ram_enabled = (BitAnd(value, \h0F) = \h0A)])
      [] address \in \h2000 .. \h3FFF ->
            LET bank == BitAnd(value, \h1F) IN
            Done([c EXCEPT !.current_rom_bank = IF bank = 0 THEN 1 ELSE bank])
      [] address \in \h4000 .. \h5FFF ->
            LET upper_bits == BitAnd(value, \h03) * 32 IN
            Done([c EXCEPT !.current_rom_bank =
                               BitOr(BitAnd(c.current_rom_bank, \h1F), upper_bits)])
      [] address \in \h6000 .. \h7FFF ->
            Done([c EXCEPT !.banking_mode = BitAnd(value, \h01)])
      [] address \in \hA000 .. \hBFFF ->
            IF c.ram_enabled /\ c.ram_len # 0
            THEN ram_store(c, ram_index(c, address), value)
            ELSE Done(c)
      [] OTHER -> Done(c)

\* Cartridge::handle_mbc1_write
handle_mbc1_write(c, address, value) ==
    CASE address \in \h0000 .. \h1FFF ->
            Done([c EXCEPT !.ram_enabled = (BitAnd(value, \h0F) = \h0A)])
      [] address \in \h2000 .. \h3FFF ->
            LET bank == BitAnd(value, \h1F) IN
            Done([c EXCEPT !.current_rom_bank = IF bank = 0 THEN 1 ELSE bank])
      [] address \in \h4000 .. \h5FFF ->
            IF c.banking_mode = 0
            THEN LET upper_bits == BitAnd(value, \h03) * 32 IN
                 Done([c EXCEPT !.current_rom_bank =
                                    BitOr(BitAnd(c.current_rom_bank, \h1F), upper_bits)])
            ELSE Done([c EXCEPT !.current_ram_bank = BitAnd(value, \h03)])
      [] address \in \h6000 .. \h7FFF ->
            Done([c EXCEPT !.banking_mode = BitAnd(value, \h01)])
      [] address \in \hA000 .. \hBFFF ->
            IF c.ram_enabled /\ c.ram_len # 0
            THEN ram_store(c, ram_index(c, address), value)
            ELSE Done(c)
      [] OTHER -> Done(c)

\* Cartridge::handle_mbc2_write, decoding by window as type-1 does instead
\* of by address bit 8.
handle_mbc2_write_by_window(c, address, value) ==
    CASE address \in \h0000 .. \h1FFF ->
            Done([c EXCEPT !.ram_enabled = (BitAnd(value, \h0F) = \h0A)])
      [] address \in \h2000 .. \h3FFF ->
            LET bank == BitAnd(value, \h0F) IN
            Done([c EXCEPT !.current_rom_bank = IF bank = 0 THEN 1 ELSE bank])
      [] address \in \hA000 .. \hBFFF ->
            IF c.ram_enabled /\ c.ram_len # 0
            THEN LET local_address == address - \hA000 IN
                 IF local_address < \h200
                 THEN ram_store(c, local_address, BitAnd(value, \h0F))
                 ELSE Done(c)
            ELSE Done(c)
      [] OTHER -> Done(c)

\* Cartridge::handle_mbc2_write
handle_mbc2_write(c, address, value) ==
    CASE address \in \h0000 .. \h3FFF ->
            IF BitAnd(address, \h100) = 0
            THEN Done([c EXCEPT !.ram_enabled = (BitAnd(value, \h0F) = \h0A)])
            ELSE LET bank == BitAnd(value, \h0F) IN
                 Done([c EXCEPT !.current_rom_bank = IF bank = 0 THEN 1 ELSE bank])
      [] address \in \hA000 .. \hBFFF ->
            IF c.ram_enabled /\ c.ram_len # 0
            THEN LET local_address == address - \hA000 IN
                 IF local_address < \h200
                 THEN ram_store(c, local_address, BitAnd(value, \h0F))
                 ELSE Done(c)
            ELSE Done(c)
      [] OTHER -> Done(c)

\* Cartridge::handle_mbc3_write, without the coercion of ROM bank 0 to 1.
handle_mbc3_write_no_coercion(c, address, value) ==
    CASE address \in \h0000 .. \h1FFF ->
            Done([c EXCEPT !.ram_enabled = (BitAnd(value, \h0F) = \h0A)])
      [] address \in \h2000 .. \h3FFF ->
            Done([c EXCEPT !.current_rom_bank = BitAnd(value, \h7F)])
      [] address \in \h4000 .. \h5FFF ->
            IF value <= \h03
            THEN Done([c EXCEPT !.current_ram_bank = value])
            ELSE Done(c)
      [] address \in \h6000 .. \h7FFF -> Done(c)
      [] address \in \hA000 .. \hBFFF ->
            IF c.ram_enabled /\ c.ram_len # 0
            THEN ram_store(c, ram_index(c, address), value)
            ELSE Done(c)
      [] OTHER -> Done(c)

\* Cartridge::handle_mbc3_write, with the clock-register selects 0x08-0x0C
\* stored as the RAM bank.
handle_mbc3_write_rtc_select(c, address, value) ==
    CASE address \in \h0000 .. \h1FFF ->
            Done([c EXCEPT !.ram_enabled = (BitAnd(value, \h0F) = \h0A)])
      [] address \in \h2000 .. \h3FFF ->
            LET bank == BitAnd(value, \h7F) IN
            Done([c EXCEPT !.current_rom_bank = IF bank = 0 THEN 1 ELSE bank])
      [] address \in \h4000 .. \h5FFF ->
            IF value <= \h03 \/ value \in \h08 .. \h0C
            THEN Done([c EXCEPT !.current_ram_bank = value])
            ELSE Done(c)
      [] address \in \h6000 .. \h7FFF -> Done(c)
      [] address \in \hA000 .. \hBFFF ->
            IF c.ram_enabled /\ c.ram_len # 0
            THEN ram_store(c, ram_index(c, address), value)
            ELSE Done(c)
      [] OTHER -> Done(c)

\* Cartridge::handle_mbc3_write
handle_mbc3_write(c, address, value) ==
    CASE address \in \h0000 .. \h1FFF ->
            Done([c EXCEPT !.ram_enabled = (BitAnd(value, \h0F) = \h0A)])
      [] address \in \h2000 .. \h3FFF ->
            LET bank == BitAnd(value, \h7F) IN
            Done([c EXCEPT !.current_rom_bank = IF bank = 0 THEN 1 ELSE bank])
      [] address \in \h4000 .. \h5FFF ->
            IF value <= \h03
            THEN Done([c EXCEPT !.current_ram_bank = value])
            ELSE Done(c)
      [] address \in \h6000 .. \h7FFF -> Done(c)
      [] address \in \hA000 .. \hBFFF ->
            IF c.ram_enabled /\ c.ram_len # 0
            THEN ram_store(c, ram_index(c, address), value)
            ELSE Done(c)
      [] OTHER -> Done(c)

\* Cartridge::handle_mbc5_write, coercing a low byte of 0 to 1 as type-1 does.
handle_mbc5_write_coercion(c, address, value) ==
    CASE address \in \h0000 .. \h1FFF ->
            Done([c EXCEPT !.ram_enabled = (BitAnd(value, \h0F) = \h0A)])
      [] address \in \h2000 .. \h2FFF ->
            Done([c EXCEPT !.current_rom_bank =
                               BitOr(BitAnd(c.current_rom_bank, \h100),
                                     IF value = 0 THEN 1 ELSE value)])
      [] address \in \h3000 .. \h3FFF ->
            Done([c EXCEPT !.current_rom_bank =
                               BitOr(BitAnd(c.current_rom_bank, \hFF),
                                     BitAnd(value, \h01) * 256)])
      [] address \in \h4000 .. \h5FFF ->
            Done([c EXCEPT !.current_ram_bank = BitAnd(value, \h0F)])
      [] address \in \hA000 .. \hBFFF ->
            IF c.ram_enabled /\ c.ram_len # 0
            THEN ram_store(c, ram_index(c, address), value)
            ELSE Done(c)
      [] OTHER -> Done(c)

\* Cartridge::handle_mbc5_write, decoding RAM enable at every address no
\* other arm takes.
handle_mbc5_write_enable_elsewhere(c, address, value) ==
    CASE address \in \h2000 .. \h2FFF ->
            Done([c EXCEPT !.current_rom_bank =
                               BitOr(BitAnd(c.current_rom_bank, \h100), value)])
      [] address \in \h3000 .. \h3FFF ->
            Done([c EXCEPT !.current_rom_bank =
                               BitOr(BitAnd(c.current_rom_bank, \hFF),
                                     BitAnd(value, \h01) * 256)])
      [] address \in \h4000 .. \h5FFF ->
            Done([c EXCEPT !.current_ram_bank = BitAnd(value, \h0F)])
      [] address \in \hA000 .. \hBFFF ->
            IF c.ram_enabled /\ c.ram_len # 0
            THEN ram_store(c, ram_index(c, address), value)
            ELSE Done(c)
      [] OTHER ->
            Done([c EXCEPT !.ram_enabled = (BitAnd(value, \h0F) = \h0A)])

\* handle_mbc5_write with the high window replacing the whole bank number
\* instead of keeping its low byte.
handle_mbc5_write_high_clobbers(c, address, value) ==
    CASE address \in \h0000 .. \h1FFF ->
            Done([c EXCEPT !.ram_enabled = (BitAnd(value, \h0F) = \h0A)])
      [] address \in \h2000 .. \h2FFF ->
            Done([c EXCEPT !.current_rom_bank =
                               BitOr(BitAnd(c.current_rom_bank, \h100), value)])
      [] address \in \h3000 .. \h3FFF ->
            Done([c EXCEPT !.current_rom_bank = BitAnd(value, \h01) * 256])
      [] address \in \h4000 .. \h5FFF ->
            Done([c EXCEPT !.current_ram_bank = BitAnd(value, \h0F)])
      [] address \in \hA000 .. \hBFFF ->
            IF c.ram_enabled /\ c.ram_len # 0
            THEN ram_store(c, ram_index(c, address), value)
            ELSE Done(c)
      [] OTHER -> Done(c)

\* Cartridge::handle_mbc5_write
handle_mbc5_write(c, address, value) ==
    CASE address \in \h0000 .. \h1FFF ->
            Done([c EXCEPT !.ram_enabled = (BitAnd(value, \h0F) = \h0A)])
      [] address \in \h2000 .. \h2FFF ->
            Done([c EXCEPT !.current_rom_bank =
                               BitOr(BitAnd(c.current_rom_bank, \h100), value)])
      [] address \in \h3000 .. \h3FFF ->
            Done([c EXCEPT !.current_rom_bank =
                               BitOr(BitAnd(c.current_rom_bank, \hFF),
                                     BitAnd(value, \h01) * 256)])
      [] address \in \h4000 .. \h5FFF ->
            Done([c EXCEPT !.current_ram_bank = BitAnd(value, \h0F)])
      [] address \in \hA000 .. \hBFFF ->
            IF c.ram_enabled /\ c.ram_len # 0
            THEN ram_store(c, ram_index(c, address), value)
            ELSE Done(c)
      [] OTHER -> Done(c)

\* Cartridge::write, with variant None handled by the type-1 handler.
write_none_as_mbc1(c, address, value) ==
    CASE c.mbc_type = "None" -> handle_mbc1_write(c, address, value)
      [] c.mbc_type = "Mbc1" -> handle_mbc1_write(c, address, value)
      [] c.mbc_type = "Mbc2" -> handle_mbc2_write(c, address, value)
      [] c.mbc_type = "Mbc3" -> handle_mbc3_write(c, address, value)
      [] c.mbc_type = "Mbc5" -> handle_mbc5_write(c, address, value)
      [] OTHER -> Done(c)

\* Cartridge::write
write(c, address, value) ==
    CASE c.mbc_type = "None" -> Done(c)
      [] c.mbc_type = "Mbc1" -> handle_mbc1_write(c, address, value)
      [] c.mbc_type = "Mbc2" -> handle_mbc2_write(c, address, value)
      [] c.mbc_type = "Mbc3" -> handle_mbc3_write(c, address, value)
      [] c.mbc_type = "Mbc5" -> handle_mbc5_write(c, address, value)
      [] OTHER -> Done(c)


\* The image with its header-checksum byte set to the computed checksum
\* plus delta (delta 0: the checksum verifies).
Sealed(img, delta) ==
    [img EXCEPT !.header_checksum = (checksum_from(img, \h134, 0) + delta) % 256]

\* ROM images given to Cartridge::new: one type byte per controller variant;
\* a 32KB image (2 banks) declaring no RAM or 2KB, and a 64KB image (4
\* banks) declaring 8KB or 32KB of RAM.
ImageTypes == {\h00, \h03, \h06, \h13, \h1B}
ImageSizes == { <<\h8000, \h00>>, <<\h8000, \h01>>, <<\h10000, \h02>>, <<\h10000, \h03>> }
Images ==
    { Sealed([len |-> z[1], ctype |-> t, rom_size |-> (IF z[1] = \h8000 THEN 0 ELSE 1),
              ram_size |-> z[2], header_checksum |-> 0, fill |-> "banked"], 0) :
      t \in ImageTypes, z \in ImageSizes }

\* No image: the empty byte vector.
NoImage ==
    [len |-> 0, ctype |-> 0, rom_size |-> 0, ram_size |-> 0, header_checksum |-> 0,
     fill |-> "marked"]

\* Addresses of Cartridge accesses: first and last address of every control
\* window, addresses with bit 8 set and clear, the external-RAM window at
\* offsets 0, 0x1FF, 0x200, 0x7FF, 0x800 and 0x1FFF, and addresses outside.
CartAddrs ==
    { \h0000, \h0100, \h1FFF, \h2000, \h2FFF, \h3000, \h3FFF,
      \h4000, \h5FFF, \h6000, \h7FFF, \h8000,
      \hA000, \hA1FF, \hA200, \hA7FF, \hA800, \hBFFF, \hFFFF }

\* Values written: 0, RAM-enable 0x0A, values with and without bit 0, a
\* value whose low five bits are 0, and 0xFF.
CartValues == { \h00, \h03, \h05, \h0A, \h20, \hFF }

\* Number of Cartridge::write calls the model follows after Cartridge::new.
MaxOps == 3

NoFault == [kind |-> "none"]

\* One call of Cartridge::write. A panic leaves the cartridge as it was and
\* is recorded in fault; nothing runs after it.
CartWrite ==
    /\ cart.ok /\ fault = NoFault /\ nops < MaxOps
    /\ \E a \in CartAddrs, v \in CartValues :
          LET r == write(cart, a, v) IN
          /\ cart' = r.cart
          /\ fault' = IF r.panic
                      THEN [kind |-> "ram_index", op |-> "write", addr |-> a, value |-> v]
                      ELSE NoFault
    /\ nops' = nops + 1
    /\ UNCHANGED <<ppuVars, mmuVars, romVars, apuVars, overflow_checks>>

\* One call of Cartridge::read: the cartridge is unchanged; a panic is
\* recorded in fault.
CartRead ==
    /\ cart.ok /\ fault = NoFault
    /\ \E a \in CartAddrs :
          fault' = IF read(cart, a) = PANIC
                   THEN [kind |-> IF a < \h8000 THEN "rom_index" ELSE "ram_index",
                         op |-> "read", addr |-> a, value |-> 0]
                   ELSE NoFault
    /\ UNCHANGED <<cart, nops>>
    /\ UNCHANGED <<ppuVars, mmuVars, romVars, apuVars, overflow_checks>>

\* Cartridge::new on one of the images; the other components idle.
InitCart ==
    /\ cart \in { CartridgeNew(img) : img \in Images }
    /\ nops = 0
    /\ fault = NoFault
    /\ ppu = PpuNew /\ ticks = 0 /\ past = PpuNew /\ dwell = 0 /\ rendered = {}
    /\ renders = 0
    /\ apu = [ok |-> FALSE] /\ emitted = 0 /\ afault = NoFault
    /\ overflow_checks = FALSE
    /\ mmu = [ok |-> FALSE] /\ mlast = [op |-> "none"] /\ mops = 0
    /\ rom = NoImage /\ gb = [op |-> "none"] /\ gsteps = 0

NextCart == CartWrite \/ CartRead

SpecCart == InitCart /\ [][NextCart]_vars

\* Ppu::new; the other components idle.
InitPpu ==
    /\ ppu = PpuNew /\ ticks = 0 /\ past = PpuNew /\ dwell = 0 /\ rendered = {}
    /\ renders = 0
    /\ apu = [ok |-> FALSE] /\ emitted = 0 /\ afault = NoFault
    /\ overflow_checks = FALSE
    /\ cart = [ok |-> FALSE, err |-> "none"] /\ nops = 0 /\ fault = NoFault
    /\ mmu = [ok |-> FALSE] /\ mlast = [op |-> "none"] /\ mops = 0
    /\ rom = NoImage /\ gb = [op |-> "none"] /\ gsteps = 0

NextPpu == PpuStep

SpecPpu == InitPpu /\ [][NextPpu]_vars

\* One call of Ppu::step in a run that never ends: only the engine itself
\* is followed, the counters of PpuStep stay where they are.
PpuRun ==
    /\ ppu' = [step(ppu) EXCEPT !.written = {}]
    /\ UNCHANGED <<ticks, past, dwell, rendered, renders>>
    /\ UNCHANGED <<cartVars, mmuVars, romVars, apuVars, overflow_checks>>

\* The engine stepped for ever: step() keeps being called.
SpecPpuLive == InitPpu /\ [][PpuRun]_vars /\ WF_vars(PpuRun)

(***************************************************************************)
(* Address space: src/src/emulator/memory.rs                               *)
(***************************************************************************)
ROM_BANK_0_START   == \h0000
ROM_BANK_0_END     == \h3FFF
ROM_BANK_N_START   == \h4000
ROM_BANK_N_END     == \h7FFF
VRAM_START         == \h8000
VRAM_END           == \h9FFF
EXTERNAL_RAM_START == \hA000
EXTERNAL_RAM_END   == \hBFFF
WRAM_START         == \hC000
WRAM_END           == \hDFFF
ECHO_RAM_START     == \hE000
ECHO_RAM_END       == \hFDFF
OAM_START          == \hFE00
OAM_END            == \hFE9F
UNUSED_START       == \hFEA0
UNUSED_END         == \hFEFF
IO_REGISTERS_START == \hFF00
IO_REGISTERS_END   == \hFF7F
HRAM_START         == \hFF80
HRAM_END           == \hFFFE
INTERRUPT_ENABLE_REGISTER == \hFFFF

\* Lengths of the backing stores of struct Mmu.
StoreLen ==
    [ rom_bank_0   |-> \h4000,
      rom_bank_n   |-> \h4000,
      vram         |-> \h2000,
      external_ram |-> \h2000,
      wram         |-> \h2000,
      oam          |-> \hA0,
      io_registers |-> \h80,
      hram         |-> \h7F ]

\* Mmu::new
MmuNew ==
    [ rom_bank_0   |-> EmptyArr,
      rom_bank_n   |-> EmptyArr,
      vram         |-> EmptyArr,
      external_ram |-> EmptyArr,
      wram         |-> EmptyArr,
      oam          |-> EmptyArr,
      io_registers |-> EmptyArr,
      hram         |-> EmptyArr,
      interrupt_enable |-> 0 ]

\* self.<store>[index]; PANIC when the index is out of bounds.
load(m, store, index) ==
    IF index < StoreLen[store] THEN Get(m[store], index) ELSE PANIC

\* self.<store>[index] = value; a panic leaves the Mmu as it was.
store_byte(m, store, index, value) ==
    IF index < StoreLen[store]
    THEN [panic |-> FALSE, mmu |-> [m EXCEPT ![store] = Put(m[store], index, value)]]
    ELSE [panic |-> TRUE, mmu |-> m]

\* Mmu::read_byte, with the echo arm indexing from the start of work RAM.
read_byte_echo_from_wram_start(m, address) ==
    CASE address \in ROM_BANK_0_START .. ROM_BANK_0_END ->
            load(m, "rom_bank_0", address - ROM_BANK_0_START)
      [] address \in ROM_BANK_N_START .. ROM_BANK_N_END ->
            load(m, "rom_bank_n", address - ROM_BANK_N_START)
      [] address \in VRAM_START .. VRAM_END ->
            load(m, "vram", address - VRAM_START)
      [] address \in EXTERNAL_RAM_START .. EXTERNAL_RAM_END ->
            load(m, "external_ram", address - EXTERNAL_RAM_START)
      [] address \in WRAM_START .. WRAM_END ->
            load(m, "wram", address - WRAM_START)
      [] address \in ECHO_RAM_START .. ECHO_RAM_END ->
            load(m, "wram", address - WRAM_START)
      [] address \in OAM_START .. OAM_END ->
            load(m, "oam", address - OAM_START)
      [] address \in UNUSED_START .. UNUSED_END -> \hFF
      [] address \in IO_REGISTERS_START .. IO_REGISTERS_END ->
            load(m, "io_registers", address - IO_REGISTERS_START)
      [] address \in HRAM_START .. HRAM_END ->
            load(m, "hram", address - HRAM_START)
      [] address = INTERRUPT_ENABLE_REGISTER -> m.interrupt_enable

\* Mmu::read_byte
read_byte(m, address) ==
    CASE address \in ROM_BANK_0_START .. ROM_BANK_0_END ->
            load(m, "rom_bank_0", address - ROM_BANK_0_START)
      [] address \in ROM_BANK_N_START .. ROM_BANK_N_END ->
            load(m, "rom_bank_n", address - ROM_BANK_N_START)
      [] address \in VRAM_START .. VRAM_END ->
            load(m, "vram", address - VRAM_START)
      [] address \in EXTERNAL_RAM_START .. EXTERNAL_RAM_END ->
            load(m, "external_ram", address - EXTERNAL_RAM_START)
      [] address \in WRAM_START .. WRAM_END ->
            load(m, "wram", address - WRAM_START)
      [] address \in ECHO_RAM_START .. ECHO_RAM_END ->
            load(m, "wram", address - ECHO_RAM_START)
      [] address \in OAM_START .. OAM_END ->
            load(m, "oam", address - OAM_START)
      [] address \in UNUSED_START .. UNUSED_END -> \hFF
      [] address \in IO_REGISTERS_START .. IO_REGISTERS_END ->
            load(m, "io_registers", address - IO_REGISTERS_START)
      [] address \in HRAM_START .. HRAM_END ->
            load(m, "hram", address - HRAM_START)
      [] address = INTERRUPT_ENABLE_REGISTER -> m.interrupt_enable

\* Mmu::write_byte, with writes to the echo region ignored.
write_byte_echo_ignored(m, address, value) ==
    CASE address \in ROM_BANK_0_START .. ROM_BANK_0_END -> [panic |-> FALSE, mmu |-> m]
      [] address \in ROM_BANK_N_START .. ROM_BANK_N_END -> [panic |-> FALSE, mmu |-> m]
      [] address \in VRAM_START .. VRAM_END ->
            store_byte(m, "vram", address - VRAM_START, value)
      [] address \in EXTERNAL_RAM_START .. EXTERNAL_RAM_END ->
            store_byte(m, "external_ram", address - EXTERNAL_RAM_START, value)
      [] address \in WRAM_START .. WRAM_END ->
            store_byte(m, "wram", address - WRAM_START, value)
      [] address \in ECHO_RAM_START .. ECHO_RAM_END -> [panic |-> FALSE, mmu |-> m]
      [] address \in OAM_START .. OAM_END ->
            store_byte(m, "oam", address - OAM_START, value)
      [] address \in UNUSED_START .. UNUSED_END -> [panic |-> FALSE, mmu |-> m]
      [] address \in IO_REGISTERS_START .. IO_REGISTERS_END ->
            store_byte(m, "io_registers", address - IO_REGISTERS_START, value)
      [] address \in HRAM_START .. HRAM_END ->
            store_byte(m, "hram", address - HRAM_START, value)
      [] address = INTERRUPT_ENABLE_REGISTER ->
            [panic |-> FALSE, mmu |-> [m EXCEPT !.interrupt_enable = value]]

\* Mmu::write_byte with writes to the unused hole stored in OAM.
write_byte_hole_stored(m, address, value) ==
    CASE address \in ROM_BANK_0_START .. ROM_BANK_0_END -> [panic |-> FALSE, mmu |-> m]
      [] address \in ROM_BANK_N_START .. ROM_BANK_N_END -> [panic |-> FALSE, mmu |-> m]
      [] address \in VRAM_START .. VRAM_END ->
            store_byte(m, "vram", address - VRAM_START, value)
      [] address \in EXTERNAL_RAM_START .. EXTERNAL_RAM_END ->
            store_byte(m, "external_ram", address - EXTERNAL_RAM_START, value)
      [] address \in WRAM_START .. WRAM_END ->
            store_byte(m, "wram", address - WRAM_START, value)
      [] address \in ECHO_RAM_START .. ECHO_RAM_END ->
            store_byte(m, "wram", address - ECHO_RAM_START, value)
      [] address \in OAM_START .. OAM_END ->
            store_byte(m, "oam", address - OAM_START, value)
      [] address \in UNUSED_START .. UNUSED_END ->
            store_byte(m, "oam", address - UNUSED_START, value)
      [] address \in IO_REGISTERS_START .. IO_REGISTERS_END ->
            store_byte(m, "io_registers", address - IO_REGISTERS_START, value)
      [] address \in HRAM_START .. HRAM_END ->
            store_byte(m, "hram", address - HRAM_START, value)
      [] address = INTERRUPT_ENABLE_REGISTER ->
            [panic |-> FALSE, mmu |-> [m EXCEPT !.interrupt_enable = value]]

\* Mmu::write_byte with a high-RAM write also stored in the
\* interrupt-enable register.
write_byte_hram_spills(m, address, value) ==
    CASE address \in ROM_BANK_0_START .. ROM_BANK_0_END -> [panic |-> FALSE, mmu |-> m]
      [] address \in ROM_BANK_N_START .. ROM_BANK_N_END -> [panic |-> FALSE, mmu |-> m]
      [] address \in VRAM_START .. VRAM_END ->
            store_byte(m, "vram", address - VRAM_START, value)
      [] address \in EXTERNAL_RAM_START .. EXTERNAL_RAM_END ->
            store_byte(m, "external_ram", address - EXTERNAL_RAM_START, value)
      [] address \in WRAM_START .. WRAM_END ->
            store_byte(m, "wram", address - WRAM_START, value)
      [] address \in ECHO_RAM_START .. ECHO_RAM_END ->
            store_byte(m, "wram", address - ECHO_RAM_START, value)
      [] address \in OAM_START .. OAM_END ->
            store_byte(m, "oam", address - OAM_START, value)
      [] address \in UNUSED_START .. UNUSED_END -> [panic |-> FALSE, mmu |-> m]
      [] address \in IO_REGISTERS_START .. IO_REGISTERS_END ->
            store_byte(m, "io_registers", address - IO_REGISTERS_START, value)
      [] address \in HRAM_START .. HRAM_END ->
            store_byte([m EXCEPT !.interrupt_enable = value],
                       "hram", address - HRAM_START, value)
      [] address = INTERRUPT_ENABLE_REGISTER ->
            [panic |-> FALSE, mmu |-> [m EXCEPT !.interrupt_enable = value]]

\* Mmu::write_byte
write_byte(m, address, value) ==
    CASE address \in ROM_BANK_0_START .. ROM_BANK_0_END -> [panic |-> FALSE, mmu |-> m]
      [] address \in ROM_BANK_N_START .. ROM_BANK_N_END -> [panic |-> FALSE, mmu |-> m]
      [] address \in VRAM_START .. VRAM_END ->
            store_byte(m, "vram", address - VRAM_START, value)
      [] address \in EXTERNAL_RAM_START .. EXTERNAL_RAM_END ->
            store_byte(m, "external_ram", address - EXTERNAL_RAM_START, value)
      [] address \in WRAM_START .. WRAM_END ->
            store_byte(m, "wram", address - WRAM_START, value)
      [] address \in ECHO_RAM_START .. ECHO_RAM_END ->
            store_byte(m, "wram", address - ECHO_RAM_START, value)
      [] address \in OAM_START .. OAM_END ->
            store_byte(m, "oam", address - OAM_START, value)
      [] address \in UNUSED_START .. UNUSED_END -> [panic |-> FALSE, mmu |-> m]
      [] address \in IO_REGISTERS_START .. IO_REGISTERS_END ->
            store_byte(m, "io_registers", address - IO_REGISTERS_START, value)
      [] address \in HRAM_START .. HRAM_END ->
            store_byte(m, "hram", address - HRAM_START, value)
      [] address = INTERRUPT_ENABLE_REGISTER ->
            [panic |-> FALSE, mmu |-> [m EXCEPT !.interrupt_enable = value]]

\* Mmu::read_word. The u16 sum address + 1 overflows at 0xFFFF: a panic
\* in a build that checks overflow, address 0x0000 otherwise.
read_word(m, address, checks) ==
    LET low == read_byte(m, address) IN
    IF low = PANIC THEN PANIC
    ELSE IF address + 1 > \hFFFF /\ checks THEN PANIC
    ELSE LET high == read_byte(m, (address + 1) % 65536) IN
         IF high = PANIC THEN PANIC ELSE BitOr(high * 256, low)

\* Mmu::write_word, with the same overflow after its first write_byte.
write_word(m, address, value, checks) ==
    LET first == write_byte(m, address, BitAnd(value, \hFF)) IN
    IF first.panic THEN first
    ELSE IF address + 1 > \hFFFF /\ checks THEN [panic |-> TRUE, mmu |-> first.mmu]
    ELSE write_byte(first.mmu, (address + 1) % 65536, value \div 256)

\* copy_from_slice(&rom_data[from..to]) into a zero-based store.
copy_from_slice(img, from, to) ==
    [k \in { i - from : i \in { j \in Support(img) :
                                  from <= j /\ j < to /\ RomByte(img, j) # 0 } }
        |-> RomByte(img, k + from)]

\* Mmu::load_rom
load_rom(m, img) ==
    IF img.len < \h4000
    THEN [ok |-> FALSE, err |-> "InvalidRom", mmu |-> m]
    ELSE [ok |-> TRUE, err |-> "none",
          mmu |-> [m EXCEPT
                     !.rom_bank_0 = copy_from_slice(img, \h0000, \h4000),
                     !.rom_bank_n = IF img.len >= \h8000
                                    THEN copy_from_slice(img, \h4000, \h8000)
                                    ELSE @]]

\* Addresses of Mmu accesses: the first and last address of every region,
\* and work-RAM / echo pairs at offsets 0, 0x123 and 0x1DFF, with the first
\* work-RAM address that has no echo (offset 0x1E00).
MmuAddrs ==
    { \h0000, \h3FFF, \h4000, \h7FFF, \h8000, \h9FFF, \hA000, \hBFFF,
      \hC000, \hC123, \hDDFF, \hDE00, \hDFFF,
      \hE000, \hE123, \hFDFF,
      \hFE00, \hFE9F, \hFEA0, \hFEFF, \hFF00, \hFF7F, \hFF80, \hFFFE, \hFFFF }

\* Values written.
MmuValues == { \h00, \h5A, \hFF }

\* Number of Mmu::write_byte calls the model follows after Mmu::new.
MaxMmuWrites == 2

\* Images given to the load entry points. Lengths: empty, one byte, around
\* the header end 0x150, around one bank 0x4000, around two banks 0x8000,
\* and four banks. Type bytes: both ends of every supported range and the
\* bytes next to them. The header checksum verifies (0) or is off by one.
LoadLengths == { 0, 1, \h14F, \h150, \h3FFF, \h4000, \h7FFF, \h8000, \h10000 }
TypeBytes ==
    { \h00, \h01, \h03, \h04, \h05, \h06, \h07, \h0E, \h0F, \h13, \h14,
      \h18, \h19, \h1E, \h1F, \hFF }
LoadImages ==
    { Sealed([len |-> n, ctype |-> t, rom_size |-> (IF n = \h10000 THEN 1 ELSE 0),
              ram_size |-> \h02, header_checksum |-> 0, fill |-> "marked"], d) :
      n \in LoadLengths, t \in TypeBytes, d \in {0, 1} }

\* Images loaded into the Mmu before accesses: four banks behind a type-1
\* controller, and two banks without a controller.
MmuImages ==
    { img \in LoadImages :
         /\ <<img.len, img.ctype>> \in { <<\h10000, \h01>>, <<\h8000, \h00>> }
         /\ img.header_checksum = checksum_from(img, \h134, 0) }

\* One call of Mmu::write_byte.
MmuWrite ==
    /\ mlast.op # "panic" /\ mops < MaxMmuWrites
    /\ \E a \in MmuAddrs, v \in MmuValues :
          LET r == write_byte(mmu, a, v) IN
          /\ mmu' = r.mmu
          /\ mlast' = IF r.panic THEN [op |-> "panic", by |-> "write_byte"] ELSE [op |-> "write"]
    /\ mops' = mops + 1
    /\ UNCHANGED <<ppuVars, cartVars, romVars, apuVars, overflow_checks>>

\* One call of Mmu::read_byte: the Mmu is unchanged, the byte is returned.
MmuRead ==
    /\ mlast.op # "panic"
    /\ \E a \in MmuAddrs :
          mlast' = IF read_byte(mmu, a) = PANIC THEN [op |-> "panic", by |-> "read_byte"]
                   ELSE [op |-> "read", value |-> read_byte(mmu, a)]
    /\ UNCHANGED <<mmu, mops>>
    /\ UNCHANGED <<ppuVars, cartVars, romVars, apuVars, overflow_checks>>

\* The addresses and values the word helpers are called with.
WordAddrs  == { \h0000, \h7FFF, \h9FFF, \hC000, \hFDFF, \hFE9F, \hFEFF, \hFF7F,
                \hFFFE, \hFFFF }
WordValues == { \h5AFF, \h00A5, \h1234 }

\* One call of Mmu::write_word.
MmuWriteWord ==
    /\ mlast.op # "panic" /\ mops < MaxMmuWrites
    /\ \E a \in WordAddrs, w \in WordValues :
          LET r == write_word(mmu, a, w, overflow_checks) IN
          /\ mmu' = r.mmu
          /\ mlast' = IF r.panic THEN [op |-> "panic", by |-> "write_word"]
                      ELSE [op |-> "write"]
    /\ mops' = mops + 1
    /\ UNCHANGED <<ppuVars, cartVars, romVars, apuVars, overflow_checks>>

\* One call of Mmu::read_word: the Mmu is unchanged, the word is returned.
MmuReadWord ==
    /\ mlast.op # "panic"
    /\ \E a \in WordAddrs :
          mlast' = IF read_word(mmu, a, overflow_checks) = PANIC
                   THEN [op |-> "panic", by |-> "read_word"]
                   ELSE [op |-> "read", value |-> read_word(mmu, a, overflow_checks)]
    /\ UNCHANGED <<mmu, mops>>
    /\ UNCHANGED <<ppuVars, cartVars, romVars, apuVars, overflow_checks>>

\* One call of Mmu::load_rom on the image at hand.
MmuLoadRom ==
    /\ mlast.op # "panic"
    /\ LET r == load_rom(mmu, rom) IN
          /\ mmu' = r.mmu
          /\ mlast' = [op |-> "load_rom", ok |-> r.ok, err |-> r.err]
    /\ UNCHANGED mops
    /\ UNCHANGED <<ppuVars, cartVars, romVars, apuVars, overflow_checks>>

\* Mmu::new, with an image at hand to load; the other components idle.
\* The byte primitives do no arithmetic that can overflow.
InitMmu ==
    /\ mmu = MmuNew /\ mlast = [op |-> "new"] /\ mops = 0
    /\ rom \in MmuImages /\ gb = [op |-> "none"] /\ gsteps = 0
    /\ ppu = PpuNew /\ ticks = 0 /\ past = PpuNew /\ dwell = 0 /\ rendered = {}
    /\ renders = 0
    /\ apu = [ok |-> FALSE] /\ emitted = 0 /\ afault = NoFault
    /\ overflow_checks = FALSE
    /\ cart = [ok |-> FALSE, err |-> "none"] /\ nops = 0 /\ fault = NoFault

NextMmu == MmuWrite \/ MmuRead \/ MmuLoadRom

SpecMmu == InitMmu /\ [][NextMmu]_vars

\* Mmu::new under either build, for the word helpers.
InitWord ==
    /\ mmu = MmuNew /\ mlast = [op |-> "new"] /\ mops = 0
    /\ rom \in MmuImages /\ gb = [op |-> "none"] /\ gsteps = 0
    /\ overflow_checks \in BOOLEAN
    /\ ppu = PpuNew /\ ticks = 0 /\ past = PpuNew /\ dwell = 0 /\ rendered = {}
    /\ renders = 0
    /\ apu = [ok |-> FALSE] /\ emitted = 0 /\ afault = NoFault
    /\ cart = [ok |-> FALSE, err |-> "none"] /\ nops = 0 /\ fault = NoFault

NextWord == MmuWriteWord \/ MmuReadWord \/ MmuLoadRom

SpecWord == InitWord /\ [][NextWord]_vars

(***************************************************************************)
(* Top-level emulator: src/src/emulator/mod.rs                             *)
(***************************************************************************)

\* GameBoy::load_rom: the struct has no fields, the call only returns.
gameboy_load_rom(img) ==
    IF img.len = 0
    THEN [ok |-> FALSE, err |-> "InvalidRom"]
    ELSE [ok |-> TRUE, err |-> "none"]

\* One call of GameBoy::load_rom on the image at hand.
GameBoyLoadRom ==
    /\ LET r == gameboy_load_rom(rom) IN
          gb' = [op |-> "load_rom", ok |-> r.ok, err |-> r.err]
    /\ UNCHANGED <<rom, gsteps>>
    /\ UNCHANGED <<ppuVars, cartVars, mmuVars, apuVars, overflow_checks>>

\* GameBoy::new: the struct has no fields.
GameBoyNew == <<>>

\* GameBoy::step
gameboy_step(g) == g

\* GameBoy::get_frame_buffer returning one pixel.
gameboy_get_frame_buffer_one_pixel(g) == <<0>>

\* GameBoy::get_frame_buffer
gameboy_get_frame_buffer(g) == <<>>

\* GameBoy::get_audio_samples
gameboy_get_audio_samples(g) == <<>>

\* The GameBoy::step calls a run makes.
MaxGbSteps == 3

\* One call of GameBoy::step, followed by a look at both buffers.
GameBoyStep ==
    /\ gsteps < MaxGbSteps
    /\ gb' = [op |-> "step",
              frame |-> gameboy_get_frame_buffer(gameboy_step(GameBoyNew)),
              audio |-> gameboy_get_audio_samples(gameboy_step(GameBoyNew))]
    /\ gsteps' = gsteps + 1
    /\ UNCHANGED rom
    /\ UNCHANGED <<ppuVars, cartVars, mmuVars, apuVars, overflow_checks>>

\* The title Cartridge::parse_header extracts: the bytes at 0x134-0x143 up
\* to the first zero byte.
RECURSIVE title_from(_, _)
title_from(img, i) ==
    IF i >= \h144 \/ RomByte(img, i) = 0 THEN <<>>
    ELSE <<RomByte(img, i)>> \o title_from(img, i + 1)

\* Cartridge::get_info: the four values it formats, the sizes in KB
\* (usize division by 1024).
get_info(c) ==
    [ title    |-> title_from(c.rom_data, \h134),
      type     |-> c.mbc_type,
      rom_size |-> c.rom_data.len \div 1024,
      ram_size |-> c.ram_len \div 1024 ]

\* Images whose size codes need not agree with their length, behind a
\* type-1 controller.
SizeImages ==
    { Sealed([len |-> n, ctype |-> \h01, rom_size |-> r, ram_size |-> m,
              header_checksum |-> 0, fill |-> "marked"], 0) :
      n \in {\h8000, \h10000}, r \in {\h00, \h01, \h02, \h08},
      m \in {\h00, \h01, \h02, \h03, \h04, \h05, \h06, \hFF} }

\* One call of Cartridge::new on the image at hand.
CartNew ==
    /\ cart' = CartridgeNew(rom)
    /\ UNCHANGED <<nops, fault>>
    /\ UNCHANGED <<ppuVars, mmuVars, romVars, apuVars, overflow_checks>>

\* An image is at hand; GameBoy::new and Mmu::new have run, no cartridge
\* has been constructed yet.
InitLoad ==
    /\ rom \in LoadImages \cup SizeImages /\ gb = [op |-> "new"] /\ gsteps = 0
    /\ mmu = MmuNew /\ mlast = [op |-> "new"] /\ mops = 0
    /\ cart = [ok |-> FALSE, err |-> "none"] /\ nops = 0 /\ fault = NoFault
    /\ ppu = PpuNew /\ ticks = 0 /\ past = PpuNew /\ dwell = 0 /\ rendered = {}
    /\ renders = 0
    /\ apu = [ok |-> FALSE] /\ emitted = 0 /\ afault = NoFault
    /\ overflow_checks = FALSE

NextLoad == CartNew \/ MmuLoadRom \/ GameBoyLoadRom \/ GameBoyStep

SpecLoad == InitLoad /\ [][NextLoad]_vars

(***************************************************************************)
(* The audio engine (src/src/emulator/apu.rs).                             *)
(***************************************************************************)
SAMPLE_RATE == 44100
BUFFER_SIZE == 1024

\* The divisor of Apu::step: ticks of the machine clock per second.
CLOCK_RATE == 4194304

\* The values of an i16, and the value a wrapping i16 operation leaves.
I16 == (0 - 32768) .. 32767
wrap_i16(x) == ((x + 32768) % 65536) - 32768

\* A u32 held as its two 16-bit halves, and u32::wrapping_add of a
\* number below 2^31 to it.
U32(hi, lo) == [hi |-> hi, lo |-> lo]
wrapping_add(x, n) ==
    U32((x.hi + ((x.lo + n) \div 65536)) % 65536, (x.lo + n) % 65536)

\* SquareChannel::new
SquareChannelNew ==
    [ enabled |-> FALSE, frequency |-> 0, duty_cycle |-> 0, volume |-> 0,
      envelope_period |-> 0, envelope_direction |-> FALSE, length |-> 0,
      length_enabled |-> FALSE, phase |-> U32(0, 0), envelope_counter |-> 0,
      current_volume |-> 0 ]

\* WaveChannel::new
WaveChannelNew ==
    [ enabled |-> FALSE, frequency |-> 0, volume |-> 0, length |-> 0,
      length_enabled |-> FALSE, wave_pattern |-> EmptyArr, phase |-> U32(0, 0),
      sample_index |-> 0 ]

\* NoiseChannel::new
NoiseChannelNew ==
    [ enabled |-> FALSE, frequency |-> 0, volume |-> 0, envelope_period |-> 0,
      envelope_direction |-> FALSE, length |-> 0, length_enabled |-> FALSE,
      width_mode |-> FALSE, lfsr |-> \h7FFF, envelope_counter |-> 0,
      current_volume |-> 0 ]

\* Apu::new
ApuNew ==
    [ master_volume |-> \h77,
      sound_enabled |-> TRUE,
      audio_buffer  |-> EmptyArr,
      buffer_pos    |-> 0,
      cycles        |-> 0,
      sample_counter |-> 0,
      channel1      |-> SquareChannelNew,
      channel2      |-> SquareChannelNew,
      channel3      |-> WaveChannelNew,
      channel4      |-> NoiseChannelNew ]

\* The result of a get_sample call: the sample, the channel it leaves, and
\* whether the call panicked instead.
Sampled(ch, v)  == [panic |-> FALSE, sample |-> v, ch |-> ch]
SamplePanic(ch) == [panic |-> TRUE, sample |-> 0, ch |-> ch]

\* An i16 product: its value when it fits, a panic or the wrapped value
\* otherwise, by the build.
mul_i16(ch, x, y, checks) ==
    IF x * y \in I16 THEN Sampled(ch, x * y)
    ELSE IF checks THEN SamplePanic(ch)
    ELSE Sampled(ch, wrap_i16(x * y))

\* The duty patterns of SquareChannel::get_sample, by duty_cycle.
duty_patterns == <<1, 129, 135, 126>>

\* SquareChannel::get_sample without the early return at current volume 0.
square_get_sample_no_silence(ch, checks) ==
    IF ch.duty_cycle >= Len(duty_patterns) THEN SamplePanic(ch)
    ELSE
        LET pattern   == duty_patterns[ch.duty_cycle + 1]
            bit_index == ch.phase.hi % 8
            amplitude == IF (pattern \div (2 ^ bit_index)) % 2 # 0 THEN 1 ELSE 0 - 1
            advanced  == [ch EXCEPT !.phase = wrapping_add(ch.phase, ch.frequency * 8)]
        IN mul_i16(advanced, amplitude * ch.current_volume, 512, checks)

\* SquareChannel::get_sample
square_get_sample(ch, checks) ==
    IF ch.current_volume = 0 THEN Sampled(ch, 0)
    ELSE IF ch.duty_cycle >= Len(duty_patterns) THEN SamplePanic(ch)
    ELSE
        LET pattern   == duty_patterns[ch.duty_cycle + 1]
            bit_index == ch.phase.hi % 8
            amplitude == IF (pattern \div (2 ^ bit_index)) % 2 # 0 THEN 1 ELSE 0 - 1
            advanced  == [ch EXCEPT !.phase = wrapping_add(ch.phase, ch.frequency * 8)]
        IN mul_i16(advanced, amplitude * ch.current_volume, 512, checks)

\* WaveChannel::get_sample
wave_get_sample(ch, checks) ==
    IF ch.volume = 0 THEN Sampled(ch, 0)
    ELSE IF ch.sample_index >= 32 THEN SamplePanic(ch)
    ELSE
        LET sample   == Get(ch.wave_pattern, ch.sample_index)
            advanced == [ch EXCEPT !.sample_index = (ch.sample_index + 1) % 32]
        IN mul_i16(advanced, sample, 256, checks)

\* The shift-register update of NoiseChannel::get_sample.
lfsr_next(lfsr, width_mode) ==
    LET bit_1   == (lfsr \div 2) % 2
        bit_0   == lfsr % 2
        new_bit == (bit_1 + bit_0) % 2
        shifted == BitOr(lfsr \div 2, new_bit * 16384)
    IN IF width_mode
       THEN BitOr(BitAnd(shifted, \hFFBF), BitAnd(new_bit * 64, \h40))
       ELSE shifted

\* NoiseChannel::get_sample
noise_get_sample(ch, checks) ==
    IF ch.current_volume = 0 THEN Sampled(ch, 0)
    ELSE
        LET bit       == ch.lfsr % 2
            amplitude == IF bit = 0 THEN 1 ELSE 0 - 1
            advanced  == [ch EXCEPT !.lfsr = lfsr_next(ch.lfsr, ch.width_mode)]
        IN mul_i16(advanced, amplitude * ch.current_volume, 512, checks)

\* The result of an Apu call: the engine it leaves, and whether the call
\* panicked instead.
ADone(a)     == [panic |-> FALSE, apu |-> a]
APanicked(a) == [panic |-> TRUE, apu |-> a]

\* The store of a sample and the advance of the position that end
\* Apu::generate_sample.
push_sample(a, v) ==
    IF a.buffer_pos >= BUFFER_SIZE THEN APanicked(a)
    ELSE ADone([a EXCEPT !.audio_buffer = Put(a.audio_buffer, a.buffer_pos, v),
                         !.buffer_pos = (a.buffer_pos + 1) % BUFFER_SIZE])

\* i32 division, which truncates toward zero.
div_i32(x, y) == IF x >= 0 THEN x \div y ELSE 0 - ((0 - x) \div y)

\* i32::clamp
clamp(x, lo, hi) == IF x < lo THEN lo ELSE IF x > hi THEN hi ELSE x

\* Apu::generate_sample. The channels are sampled in order; a panic in one
\* of them leaves it and the channels sampled before it as their
\* get_sample calls left them, and the later channels untouched.
generate_sample(a, checks) ==
    IF ~a.sound_enabled THEN push_sample(a, 0)
    ELSE
        LET s1 == IF a.channel1.enabled THEN square_get_sample(a.channel1, checks)
                  ELSE Sampled(a.channel1, 0)
            s2 == IF a.channel2.enabled THEN square_get_sample(a.channel2, checks)
                  ELSE Sampled(a.channel2, 0)
            s3 == IF a.channel3.enabled THEN wave_get_sample(a.channel3, checks)
                  ELSE Sampled(a.channel3, 0)
            s4 == IF a.channel4.enabled THEN noise_get_sample(a.channel4, checks)
                  ELSE Sampled(a.channel4, 0)
            mixed  == s1.sample + s2.sample + s3.sample + s4.sample
            scaled == div_i32(mixed * a.master_volume, 4)
            sample == clamp(scaled, 0 - 32768, 32767)
            a1 == [a  EXCEPT !.channel1 = s1.ch]
            a2 == [a1 EXCEPT !.channel2 = s2.ch]
            a3 == [a2 EXCEPT !.channel3 = s3.ch]
            a4 == [a3 EXCEPT !.channel4 = s4.ch]
        IN IF s1.panic THEN APanicked(a1)
           ELSE IF s2.panic THEN APanicked(a2)
           ELSE IF s3.panic THEN APanicked(a3)
           ELSE IF s4.panic THEN APanicked(a4)
           ELSE push_sample([a EXCEPT !.channel1 = s1.ch, !.channel2 = s2.ch,
                                      !.channel3 = s3.ch, !.channel4 = s4.ch],
                            sample)

\* Whether a call of Apu::step on a generates a sample.
emits(a) == a.sample_counter + SAMPLE_RATE >= CLOCK_RATE

\* Apu::step with the accumulator set back to zero at each sample instead
\* of keeping the remainder.
apu_step_drops_remainder(a, checks) ==
    LET counted == [a EXCEPT !.cycles = a.cycles + 1,
                             !.sample_counter = a.sample_counter + SAMPLE_RATE]
    IN IF counted.sample_counter >= CLOCK_RATE
       THEN generate_sample([counted EXCEPT !.sample_counter = 0], checks)
       ELSE ADone(counted)

\* Apu::step. The cycle counter stays far below the end of a u32 in the
\* runs modelled here.
apu_step(a, checks) ==
    LET counted == [a EXCEPT !.cycles = a.cycles + 1,
                             !.sample_counter = a.sample_counter + SAMPLE_RATE]
    IN IF counted.sample_counter >= CLOCK_RATE
       THEN generate_sample([counted EXCEPT !.sample_counter =
                                 counted.sample_counter - CLOCK_RATE], checks)
       ELSE ADone(counted)

\* Apu::get_audio_samples: the buffer entries below the position.
get_audio_samples(a) == [i \in 0 .. a.buffer_pos - 1 |-> Get(a.audio_buffer, i)]

\* Apu::clear_buffer
clear_buffer(a) == [a EXCEPT !.buffer_pos = 0]

\* The ticks the engine is run for, and the ticks at which the frontend may
\* clear the buffer.
MaxApuTicks == 97393
ClearTicks == {96, 97000}

\* One call of Apu::step. A panic is recorded in afault; emitted counts the
\* calls that moved the buffer position.
ApuStep ==
    /\ afault = NoFault /\ apu.cycles < MaxApuTicks
    /\ LET r == apu_step(apu, overflow_checks) IN
          /\ apu' = r.apu
          /\ afault' = IF r.panic THEN [kind |-> "apu_step"] ELSE NoFault
          /\ emitted' = IF ~r.panic /\ r.apu.buffer_pos # apu.buffer_pos
                        THEN emitted + 1 ELSE emitted
    /\ UNCHANGED <<ppuVars, cartVars, mmuVars, romVars, overflow_checks>>

\* One call of Apu::clear_buffer.
ApuClear ==
    /\ afault = NoFault /\ apu.cycles \in ClearTicks
    /\ apu' = clear_buffer(apu)
    /\ UNCHANGED <<emitted, afault>>
    /\ UNCHANGED <<ppuVars, cartVars, mmuVars, romVars, overflow_checks>>

\* Apu::new under either build; the other components idle.
InitApu ==
    /\ apu = ApuNew /\ emitted = 0 /\ afault = NoFault
    /\ overflow_checks \in BOOLEAN
    /\ ppu = PpuNew /\ ticks = 0 /\ past = PpuNew /\ dwell = 0 /\ rendered = {}
    /\ renders = 0
    /\ cart = [ok |-> FALSE] /\ nops = 0 /\ fault = NoFault
    /\ mmu = [ok |-> FALSE] /\ mlast = [op |-> "none"] /\ mops = 0
    /\ rom = NoImage /\ gb = [op |-> "none"] /\ gsteps = 0

NextApu == ApuStep \/ ApuClear

SpecApu == InitApu /\ [][NextApu]_vars

\* The channel settings a frontend leaves in the engine's public fields.
Duties      == {0, 1, 2, 3, 4, 255}
Phases      == { U32(k, 0) : k \in 0 .. 7 } \cup { U32(\hFFFF, \hFFF8) }
Volumes     == {0, 1, 15, 63, 64, 255}
Frequencies == {1, 65535}
LfsrValues  == { \h7FFF, \h3FFF, \h0001, \h0002, \h0003, \h4000, \h0040, \h5555, \h2AAA }

Squares ==
    { [SquareChannelNew EXCEPT !.enabled = TRUE, !.duty_cycle = d, !.phase = ph,
                               !.current_volume = v, !.frequency = f] :
      d \in Duties, ph \in Phases, v \in Volumes, f \in Frequencies }

Waves ==
    { [WaveChannelNew EXCEPT !.enabled = TRUE, !.volume = v, !.sample_index = i,
                             !.wave_pattern = Put(Put(EmptyArr, 0, e), 31, e)] :
      v \in {0, 1}, i \in {0, 31}, e \in {0, 127, 128, 255} }

Noises ==
    { [NoiseChannelNew EXCEPT !.enabled = TRUE, !.lfsr = l, !.width_mode = w,
                              !.current_volume = v] :
      l \in LfsrValues, w \in BOOLEAN, v \in {0, 15, 64} }

\* A few settings of each channel, for mixing them.
SomeSquares ==
    { SquareChannelNew } \cup
    { s \in Squares : /\ s.duty_cycle = 2 /\ s.frequency = 1
                      /\ s.phase \in {U32(0, 0), U32(3, 0)}
                      /\ s.current_volume \in {15, 63} }
SomeWaves  == { WaveChannelNew } \cup
              { w \in Waves : w.volume = 1 /\ w.sample_index = 0 /\ Get(w.wave_pattern, 0) = 127 }
SomeNoises == { NoiseChannelNew } \cup
              { n \in Noises : n.lfsr \in {\h7FFF, \h0002} /\ ~n.width_mode /\ n.current_volume = 15 }

\* The sample rate and the clock rate in lowest terms: n ticks add
\* n * RateNum / RateDen samples' worth to the accumulator.
RateNum == SAMPLE_RATE \div 4
RateDen == CLOCK_RATE \div 4

\* The accumulator and the number of samples after n ticks from Apu::new.
counter_after(n) == 4 * ((n * RateNum) % RateDen)
samples_after(n) == (n * RateNum) \div RateDen

\* The tick before the engine's BUFFER_SIZE-th sample.
MixTick == ((BUFFER_SIZE * RateDen + RateNum - 1) \div RateNum) - 1

\* The engine at MixTick with the given settings.
Tuned(c1, c2, c3, c4, snd, mv, pos, buf) ==
    [ ApuNew EXCEPT !.channel1 = c1, !.channel2 = c2, !.channel3 = c3, !.channel4 = c4,
                    !.sound_enabled = snd, !.master_volume = mv,
                    !.buffer_pos = pos, !.audio_buffer = buf,
                    !.cycles = MixTick,
                    !.sample_counter = counter_after(MixTick) ]

\* A buffer holding earlier samples.
Stale == Put(Put(Put(EmptyArr, 0, 7), 1, 7), BUFFER_SIZE - 1, 7)

MixStates ==
    { Tuned(c, SquareChannelNew, WaveChannelNew, NoiseChannelNew, TRUE, \h77,
            BUFFER_SIZE - 1, EmptyArr) : c \in Squares }
    \cup
    { Tuned(SquareChannelNew, SquareChannelNew, c, NoiseChannelNew, TRUE, \h77,
            BUFFER_SIZE - 1, EmptyArr) : c \in Waves }
    \cup
    { Tuned(SquareChannelNew, SquareChannelNew, WaveChannelNew, c, TRUE, \h77,
            BUFFER_SIZE - 1, EmptyArr) : c \in Noises }
    \cup
    { Tuned(c1, c2, c3, c4, snd, mv, pos, buf) :
        c1 \in SomeSquares, c2 \in SomeSquares, c3 \in SomeWaves, c4 \in SomeNoises,
        snd \in BOOLEAN, mv \in {\h00, \h77, \hFF}, pos \in {0, BUFFER_SIZE - 1},
        buf \in {EmptyArr, Stale} }

\* The engine one tick before a sample, with settings drawn from the sets
\* above, under either build; the other components idle.
InitMix ==
    /\ apu \in MixStates /\ emitted = 0 /\ afault = NoFault
    /\ overflow_checks \in BOOLEAN
    /\ ppu = PpuNew /\ ticks = 0 /\ past = PpuNew /\ dwell = 0 /\ rendered = {}
    /\ renders = 0
    /\ cart = [ok |-> FALSE] /\ nops = 0 /\ fault = NoFault
    /\ mmu = [ok |-> FALSE] /\ mlast = [op |-> "none"] /\ mops = 0
    /\ rom = NoImage /\ gb = [op |-> "none"] /\ gsteps = 0

NextMix == ApuStep

SpecMix == InitMix /\ [][NextMix]_vars

\* The noise channel as a caller sets it up to sound: enabled, with a
\* current volume whose sample fits an i16.
NoiseSounding ==
    [ NoiseChannelNew EXCEPT !.enabled = TRUE, !.volume = 15, !.current_volume = 15 ]

\* One call of NoiseChannel::get_sample on channel 4.
NoiseSample ==
    /\ afault = NoFault
    /\ LET r == noise_get_sample(apu.channel4, overflow_checks) IN
          /\ apu' = [apu EXCEPT !.channel4 = r.ch]
          /\ afault' = IF r.panic THEN [kind |-> "get_sample"] ELSE NoFault
    /\ UNCHANGED emitted
    /\ UNCHANGED <<ppuVars, cartVars, mmuVars, romVars, overflow_checks>>

\* An assignment of the public field width_mode of channel 4.
NoiseSetWidth ==
    /\ afault = NoFault
    /\ apu' = [apu EXCEPT !.channel4.width_mode = ~apu.channel4.width_mode]
    /\ UNCHANGED <<emitted, afault>>
    /\ UNCHANGED <<ppuVars, cartVars, mmuVars, romVars, overflow_checks>>

InitNoise ==
    /\ apu = [ApuNew EXCEPT !.channel4 = NoiseSounding]
    /\ emitted = 0 /\ afault = NoFault
    /\ overflow_checks = FALSE
    /\ ppu = PpuNew /\ ticks = 0 /\ past = PpuNew /\ dwell = 0 /\ rendered = {}
    /\ renders = 0
    /\ cart = [ok |-> FALSE] /\ nops = 0 /\ fault = NoFault
    /\ mmu = [ok |-> FALSE] /\ mlast = [op |-> "none"] /\ mops = 0
    /\ rom = NoImage /\ gb = [op |-> "none"] /\ gsteps = 0

NextNoise == NoiseSample \/ NoiseSetWidth

SpecNoise == InitNoise /\ [][NextNoise]_vars

(***************************************************************************)
(* Claims about the address space, checked under SpecMmu.                  *)
(***************************************************************************)

\* The regions of the address map, in the order of the match arms.
Regions ==
    << [name |-> "rom_bank_0",   first |-> ROM_BANK_0_START,   last |-> ROM_BANK_0_END],
       [name |-> "rom_bank_n",   first |-> ROM_BANK_N_START,   last |-> ROM_BANK_N_END],
       [name |-> "vram",         first |-> VRAM_START,         last |-> VRAM_END],
       [name |-> "external_ram", first |-> EXTERNAL_RAM_START, last |-> EXTERNAL_RAM_END],
       [name |-> "wram",         first |-> WRAM_START,         last |-> WRAM_END],
       [name |-> "echo",         first |-> ECHO_RAM_START,     last |-> ECHO_RAM_END],
       [name |-> "oam",          first |-> OAM_START,          last |-> OAM_END],
       [name |-> "unused",       first |-> UNUSED_START,       last |-> UNUSED_END],
       [name |-> "io_registers", first |-> IO_REGISTERS_START, last |-> IO_REGISTERS_END],
       [name |-> "hram",         first |-> HRAM_START,         last |-> HRAM_END],
       [name |-> "interrupt_enable", first |-> INTERRUPT_ENABLE_REGISTER,
                                     last  |-> INTERRUPT_ENABLE_REGISTER] >>

\* C9: address decoding is total and a partition: the eleven regions tile
\* 0x0000-0xFFFF without gap or overlap, every address is handled by exactly
\* one region, and read_byte on any address after any sequence of
\* write_byte calls returns a byte without failing or indexing outside a
\* backing store (and so does a further write_byte). Right after Mmu::new
\* this is checked for each of the 65536 addresses, and in every later
\* state for the addresses the model draws.
C9_DecodeTotal ==
    /\ Regions[1].first = \h0000
    /\ Regions[Len(Regions)].last = \hFFFF
    /\ \A i \in 1 .. (Len(Regions) - 1) : Regions[i + 1].first = Regions[i].last + 1
    /\ \A i \in 1 .. Len(Regions) : Regions[i].first <= Regions[i].last
    /\ ~(mlast.op = "panic" /\ mlast.by \in {"read_byte", "write_byte"})
    /\ \A a \in MmuAddrs :
          /\ Cardinality({ i \in 1 .. Len(Regions) :
                              a \in Regions[i].first .. Regions[i].last }) = 1
          /\ read_byte(mmu, a) \in Bytes
          /\ \A v \in MmuValues :
                /\ ~write_byte(mmu, a, v).panic
                /\ read_byte(write_byte(mmu, a, v).mmu, a) \in Bytes
    /\ mlast.op = "new" =>
          \A a \in \h0000 .. \hFFFF :
              /\ Cardinality({ i \in 1 .. Len(Regions) :
                                  a \in Regions[i].first .. Regions[i].last }) = 1
              /\ read_byte(mmu, a) \in Bytes
              /\ ~write_byte(mmu, a, \h5A).panic

\* C9 witness: after two writes (the interrupt-enable register and the
\* last high-RAM byte) a read has returned 0xFF and both bytes read back.
C9_Witness ==
    /\ mops = 2
    /\ mlast = [op |-> "read", value |-> \hFF]
    /\ read_byte(mmu, \hFFFF) = \hFF
    /\ read_byte(mmu, \hFFFE) = \h5A
    /\ read_byte(mmu, \hFEA0) = \hFF

\* C10: echo RAM aliases work RAM. For every offset k in 0..0x1DFF, a write
\* of v to 0xE000+k makes a read of 0xC000+k return v, and a write of v to
\* 0xC000+k makes a read of 0xE000+k return v; the two windows always read
\* the same byte (one shared backing store).
C10_EchoAliasesWram ==
    \A a \in { x \in MmuAddrs : x \in ECHO_RAM_START .. ECHO_RAM_END } :
        LET k == a - ECHO_RAM_START IN
        /\ k \in 0 .. \h1DFF
        /\ read_byte(mmu, \hE000 + k) = read_byte(mmu, \hC000 + k)
        /\ \A v \in MmuValues :
              /\ read_byte(write_byte(mmu, \hE000 + k, v).mmu, \hC000 + k) = v
              /\ read_byte(write_byte(mmu, \hC000 + k, v).mmu, \hE000 + k) = v

\* C10 witness: a byte written through the echo window at offset 0x123 is
\* held by work RAM and read back through both windows.
C10_Witness ==
    /\ mops >= 1
    /\ Get(mmu.wram, \h123) = \h5A
    /\ read_byte(mmu, \hC123) = \h5A
    /\ read_byte(mmu, \hE123) = \h5A

(***************************************************************************)
(* Claims about the video timing engine, checked under SpecPpu.            *)
(***************************************************************************)

\* C1: video timing is periodic with period 70224. After exactly 70224
\* step() calls from Ppu::new() the engine is at scanline 0, mode OamScan,
\* cycle counter 0; and in every reachable state the (scanline, mode,
\* cycles) triple equals the triple the engine had 70224 steps earlier.
C1_FramePeriod ==
    /\ ticks = 70224 => Timing(ppu) = <<0, "OamScan", 0>>
    /\ ticks >= 70224 => Timing(ppu) = Timing(past)

\* C1 witness: in the middle of the second frame (scanline 100, Drawing)
\* the engine is where it was 70224 steps earlier.
C1_Witness ==
    /\ ticks = 70224 + 100 * 456 + 80 + 17
    /\ Timing(past) = <<100, "Drawing", 17>>
    /\ Timing(ppu) = <<100, "Drawing", 17>>

\* The number of steps the claim gives each mode.
ModeTicks(m) ==
    CASE m = "OamScan" -> 80
      [] m = "Drawing" -> 172
      [] m = "HBlank"  -> 204
      [] m = "VBlank"  -> 10 * 456

\* C2: on every visible scanline 0..143 the engine spends exactly 80 steps
\* in OamScan, then exactly 172 in Drawing, then exactly 204 in HBlank, in
\* that order, moving to the next scanline after HBlank; after HBlank of
\* scanline 143 it spends exactly 10 * 456 steps in VBlank and then enters
\* OamScan at scanline 0. No other mode transition occurs.
C2_ModeSequence ==
    [][ /\ dwell < ModeTicks(ppu.mode)
        /\ ppu.mode # "VBlank" => ppu.scanline \in 0 .. 143
        /\ IF dwell + 1 < ModeTicks(ppu.mode)
           THEN /\ ppu'.mode = ppu.mode
                /\ ppu.mode # "VBlank" => ppu'.scanline = ppu.scanline
           ELSE CASE ppu.mode = "OamScan" ->
                        ppu'.mode = "Drawing" /\ ppu'.scanline = ppu.scanline
                  [] ppu.mode = "Drawing" ->
                        ppu'.mode = "HBlank" /\ ppu'.scanline = ppu.scanline
                  [] ppu.mode = "HBlank" ->
                        /\ ppu'.scanline = ppu.scanline + 1
                        /\ ppu'.mode = IF ppu.scanline = 143 THEN "VBlank" ELSE "OamScan"
                  [] ppu.mode = "VBlank" ->
                        ppu'.mode = "OamScan" /\ ppu'.scanline = 0
      ]_vars

\* C2 witness: the last step of vertical blank of the second frame has been
\* reached, 4559 steps after the mode was entered.
C2_Witness ==
    /\ ppu.mode = "VBlank"
    /\ dwell = 4559
    /\ ticks = 2 * 70224 - 1

(***************************************************************************)
(* Claims about the cartridge controller, checked under SpecCart. A claim  *)
(* about the effect of an access is stated for every reachable cartridge   *)
(* and every access the model draws: write(cart, a, v) and read(cart, a)   *)
(* are the outcomes the next CartWrite and CartRead step would have.       *)
(***************************************************************************)
\* A constructed cartridge on which no access has panicked.
Live == cart.ok /\ fault = NoFault

\* Values of ROM-bank writes: every byte whose low five bits are 0, 1, 5 or
\* 31 (all settings of the three high bits), and the values written.
BankSelectValues == { v \in Bytes : v % 32 \in {0, 1, 5, 31} } \cup CartValues
RomBankNAddrs == { a \in CartAddrs : a \in \h4000 .. \h7FFF }
ExtRamAddrs   == { a \in CartAddrs : a \in \hA000 .. \hBFFF }

\* C3: after any sequence of control-window writes on any controller
\* variant, a read in the switchable ROM window 0x4000-0x7FFF indexes
\* inside the physical ROM image (the bank index is masked to the banks
\* present), so the access never goes out of range.
C3_RomBankInRange ==
    /\ fault.kind # "rom_index"
    /\ cart.ok => \A a \in RomBankNAddrs :
                     /\ rom_index(cart, a) < cart.rom_data.len
                     /\ read(cart, a) # PANIC

\* C4: after any sequence of writes, every read or write in the
\* external-RAM window 0xA000-0xBFFF with RAM enabled indexes inside the
\* cartridge's RAM storage, for every RAM bank value and every declared RAM
\* size: the access never goes out of range.
C4_RamAccessInRange ==
    /\ fault.kind # "ram_index"
    /\ (cart.ok /\ cart.ram_enabled) =>
          \A a \in ExtRamAddrs :
              /\ read(cart, a) # PANIC
              /\ \A v \in CartValues : ~write(cart, a, v).panic

\* C5: for controller type-1, a write of any value v to the ROM-bank window
\* 0x2000-0x3FFF yields ROM bank (v & 0x1F), with a result of 0 coerced to
\* 1: writing 0x00 yields bank 1 and writing 0x05 yields bank 5.
C5_Mbc1RomBankSelect ==
    (Live /\ cart.mbc_type = "Mbc1") =>
        \A a \in { x \in CartAddrs : x \in \h2000 .. \h3FFF } :
            /\ \A v \in BankSelectValues :
                  LET r == write(cart, a, v) IN
                  /\ ~r.panic
                  /\ r.cart.current_rom_bank = (IF v % 32 = 0 THEN 1 ELSE v % 32)
            /\ write(cart, a, \h00).cart.current_rom_bank = 1
            /\ write(cart, a, \h05).cart.current_rom_bank = 5

\* C5 witness: a type-1 cartridge on which a ROM-bank write of 0x05 has
\* selected bank 5, two writes after construction.
C5_Witness ==
    /\ cart.ok /\ cart.mbc_type = "Mbc1"
    /\ nops = 2
    /\ cart.current_rom_bank = 5

\* C6: for controller type-5, writing 0x00 to the low ROM-bank window
\* 0x2000-0x2FFF while bit 8 of the bank is clear selects ROM bank 0, with
\* no coercion to 1, and reads in 0x4000-0x7FFF then return the bytes of
\* physical bank 0.
C6_Mbc5BankZero ==
    (Live /\ cart.mbc_type = "Mbc5" /\ cart.current_rom_bank < 256) =>
        \A a \in { x \in CartAddrs : x \in \h2000 .. \h2FFF } :
            LET r == write(cart, a, \h00) IN
            /\ ~r.panic
            /\ r.cart.current_rom_bank = 0
            /\ \A b \in RomBankNAddrs :
                  /\ read(r.cart, b) = RomByte(cart.rom_data, b - \h4000)
                  /\ read(r.cart, b) = read(r.cart, b - \h4000)

\* C6 witness: a type-5 cartridge whose bank is 0 after writes, reading
\* physical bank 0 (not bank 1) at 0x4000.
C6_Witness ==
    /\ cart.ok /\ cart.mbc_type = "Mbc5"
    /\ nops >= 1
    /\ cart.current_rom_bank = 0
    /\ read(cart, \h4000) = RomByte(cart.rom_data, 0)
    /\ read(cart, \h4000) # RomByte(cart.rom_data, \h4000)

\* C7: for every supported variant, while RAM is not enabled every read in
\* 0xA000-0xBFFF returns 0xFF; once RAM has been enabled, a write of v to
\* an external-RAM address completes and a read of the same address then
\* returns v.
C7_RamReadback ==
    Live =>
        \A a \in ExtRamAddrs :
            IF ~cart.ram_enabled
            THEN read(cart, a) = \hFF
            ELSE \A v \in CartValues :
                    /\ ~write(cart, a, v).panic
                    /\ read(write(cart, a, v).cart, a) = v

\* C8 as stated: in every reachable cartridge state the current ROM bank
\* index is >= 1.
C8_Original == cart.ok => cart.current_rom_bank >= 1

\* C8 amended: in every reachable cartridge state of the variants none,
\* type-1, type-2 and type-3 the current ROM bank index is >= 1; type-5
\* can select bank 0 and its index stays in 0..511.
C8_RomBankAtLeastOne ==
    cart.ok =>
        IF cart.mbc_type = "Mbc5"
        THEN cart.current_rom_bank \in 0 .. 511
        ELSE cart.current_rom_bank >= 1

\* C8 witness: a type-3 cartridge after a ROM-bank write and other writes,
\* with its bank at 1 (a written 0 is coerced) and RAM bank 3 selected.
C8_Witness ==
    /\ cart.ok /\ cart.mbc_type = "Mbc3"
    /\ nops = 3
    /\ cart.current_rom_bank = 1
    /\ cart.current_ram_bank = 3
    /\ cart.ram_enabled

(***************************************************************************)
(* Claims about loading an image, checked under SpecMmu and SpecLoad.      *)
(***************************************************************************)

\* C11: a write issued through the address space to an address in the ROM
\* windows 0x0000-0x7FFF is forwarded to the cartridge controller's
\* bank-select logic: right after an image has been loaded, a write of v to
\* such an address followed by a read in 0x4000-0x7FFF returns the byte the
\* controller constructed from that image returns after the same write, the
\* byte of the newly selected ROM bank.
C11_RomWriteForwarded ==
    (mlast.op = "load_rom" /\ mlast.ok /\ CartridgeNew(rom).ok) =>
        \A a \in { x \in CartAddrs : x \in \h0000 .. \h7FFF }, v \in CartValues :
            LET c == write(CartridgeNew(rom), a, v).cart
                m == write_byte(mmu, a, v).mmu
            IN  \A b \in { x \in MmuAddrs : x \in ROM_BANK_N_START .. ROM_BANK_N_END } :
                    rom_index(c, b) < rom.len =>
                        /\ read(c, b) = RomByte(rom, rom_index(c, b))
                        /\ read_byte(m, b) = read(c, b)

\* C12: loading an image fails with the invalid-image error for every input
\* shorter than 0x8000 bytes, the empty input included, and succeeds for an
\* input of 0x8000 bytes, at both load entry points (Mmu::load_rom and
\* GameBoy::load_rom).
C12_ShortImageRejected ==
    /\ mlast.op = "load_rom" =>
          /\ rom.len < \h8000 => (~mlast.ok /\ mlast.err = "InvalidRom")
          /\ rom.len = \h8000 => mlast.ok
    /\ gb.op = "load_rom" =>
          /\ rom.len < \h8000 => (~gb.ok /\ gb.err = "InvalidRom")
          /\ rom.len = \h8000 => gb.ok

\* Cartridge::new has run on the image at hand.
Built == cart.ok \/ cart.err # "none"

\* The type bytes the claim lists as supported.
SupportedTypes ==
    {\h00} \cup (\h01 .. \h03) \cup (\h05 .. \h06) \cup (\h0F .. \h13) \cup (\h19 .. \h1E)

\* C13: cartridge construction returns InvalidRom when the image is shorter
\* than 0x8000 bytes, whatever its type byte; otherwise it returns
\* UnsupportedCartridge(t) with t = image[0x147] exactly when t is not one
\* of 0x00, 0x01-0x03, 0x05-0x06, 0x0F-0x13, 0x19-0x1E; otherwise it
\* succeeds with ROM bank 1, RAM bank 0, RAM disabled and banking mode 0.
C13_ConstructionOutcome ==
    /\ \A t \in Bytes : (determine_mbc_type(t) = "Unsupported") <=> (t \notin SupportedTypes)
    /\ Built =>
          IF rom.len < \h8000
          THEN cart = [ok |-> FALSE, err |-> "InvalidRom"]
          ELSE IF RomByte(rom, \h147) \notin SupportedTypes
          THEN cart = [ok |-> FALSE, err |-> "UnsupportedCartridge",
                       code |-> RomByte(rom, \h147)]
          ELSE /\ cart.ok
               /\ cart.current_rom_bank = 1
               /\ cart.current_ram_bank = 0
               /\ cart.ram_enabled = FALSE
               /\ cart.banking_mode = 0

\* C13 witness: construction on a four-bank image with type byte 0x04 has
\* returned UnsupportedCartridge(0x04).
C13_Witness ==
    /\ rom.len = \h10000 /\ rom.ctype = \h04
    /\ cart = [ok |-> FALSE, err |-> "UnsupportedCartridge", code |-> \h04]

\* What construction decides: success or the error, the variant, the RAM
\* size and the initial bank state.
Outcome(c) ==
    IF c.ok
    THEN <<"Ok", c.mbc_type, c.ram_len, c.ram_data, c.current_rom_bank,
           c.current_ram_bank, c.ram_enabled, c.banking_mode,
           c.header.cartridge_type, c.header.rom_size, c.header.ram_size>>
    ELSE <<"Err", c>>

\* C14: the outcome of cartridge construction does not depend on the
\* header-checksum byte at 0x14D: the image at hand with any byte x in
\* its place constructs to the same outcome, and an image of a supported
\* type, at least 0x8000 bytes long, whose stored checksum differs from the
\* checksum computed over 0x134..0x14C constructs successfully.
C14_ChecksumNotEnforced ==
    Built =>
        /\ \A x \in Bytes :
              Outcome(CartridgeNew([rom EXCEPT !.header_checksum = x])) = Outcome(cart)
        /\ ( /\ rom.len >= \h8000
             /\ RomByte(rom, \h147) \in SupportedTypes
             /\ RomByte(rom, \h14D) # checksum_from(rom, \h134, 0) ) => cart.ok

\* C14 witness: a type-3 cartridge constructed from an image whose stored
\* header checksum is wrong; the mismatch was logged.
C14_Witness ==
    /\ cart.ok /\ cart.mbc_type = "Mbc3"
    /\ cart.header.header_checksum # checksum_from(rom, \h134, 0)
    /\ cart.header.warned

(***************************************************************************)
(* Claims about the effect of cartridge writes, checked under SpecCart.    *)
(***************************************************************************)

\* The bank state of a cartridge.
BankState(c) ==
    <<c.current_rom_bank, c.current_ram_bank, c.ram_enabled, c.banking_mode>>

\* The drawn addresses inside the ROM windows 0x0000-0x7FFF.
ControlAddrs == { a \in CartAddrs : a \in \h0000 .. \h7FFF }

\* C15: bank state (ROM bank, RAM bank, RAM-enabled flag, banking mode) is
\* never changed by a read and is changed only by writes whose address is
\* in 0x0000-0x7FFF: every step that changes it is such a write, a write
\* to 0xA000-0xBFFF or to any other address leaves all four unchanged, and
\* a write in 0x0000-0x7FFF leaves the RAM contents unchanged.
C15_BankStateFrame ==
    /\ [](Live =>
            \A a \in CartAddrs, v \in CartValues :
                LET r == write(cart, a, v) IN
                IF a \in \h0000 .. \h7FFF
                THEN ~r.panic /\ r.cart.ram_data = cart.ram_data
                ELSE BankState(r.cart) = BankState(cart))
    /\ [][ /\ nops' = nops => cart' = cart
           /\ BankState(cart') # BankState(cart) =>
                 /\ nops' = nops + 1
                 /\ cart'.ram_data = cart.ram_data
                 /\ \E a \in ControlAddrs, v \in CartValues :
                       cart' = write(cart, a, v).cart
         ]_vars

\* C15 witness: a type-5 cartridge whose three writes enabled RAM, selected
\* RAM bank 3 and stored a byte in that bank.
C15_Witness ==
    /\ cart.ok /\ cart.mbc_type = "Mbc5" /\ nops = 3
    /\ cart.ram_enabled /\ cart.current_ram_bank = 3
    /\ Get(cart.ram_data, 3 * \h2000 + \h1FFF) = \hFF

\* C16: for controller variant None, every write at any address with any
\* value leaves the whole cartridge unchanged (ROM bank, RAM bank,
\* RAM-enabled flag, banking mode, RAM contents): the cartridge stays as
\* constructed and every read returns what it returned before the write.
C16_NoControllerIgnoresWrites ==
    (Live /\ cart.mbc_type = "None") =>
        /\ cart = CartridgeNew(cart.rom_data)
        /\ \A a \in CartAddrs, v \in CartValues :
              /\ write(cart, a, v) = Done(cart)
              /\ \A b \in CartAddrs : read(write(cart, a, v).cart, b) = read(cart, b)

\* C16 witness: a cartridge without controller whose header declares 8KB of
\* RAM, after three writes: RAM still disabled, bank 1, RAM untouched.
C16_Witness ==
    /\ cart.ok /\ cart.mbc_type = "None" /\ nops = 3
    /\ cart.ram_len = 8 * 1024
    /\ BankState(cart) = <<1, 0, FALSE, 0>>
    /\ cart.ram_data = EmptyArr

\* C17: for controller type-1, a write of v to 0x6000-0x7FFF sets the
\* banking mode to v & 1; a write of v to 0x4000-0x5FFF in mode 0 sets bits
\* 5-6 of the ROM bank to v & 3, keeping its low 5 bits and the RAM bank,
\* and in mode 1 sets the RAM bank to v & 3, keeping the ROM bank.
C17_Mbc1ModeSelect ==
    (Live /\ cart.mbc_type = "Mbc1") =>
        /\ \A a \in { x \in CartAddrs : x \in \h6000 .. \h7FFF }, v \in CartValues :
              LET r == write(cart, a, v) IN
              ~r.panic /\ r.cart.banking_mode = v % 2
        /\ \A a \in { x \in CartAddrs : x \in \h4000 .. \h5FFF }, v \in CartValues :
              LET r == write(cart, a, v) IN
              /\ ~r.panic
              /\ r.cart.banking_mode = cart.banking_mode
              /\ IF cart.banking_mode = 0
                 THEN /\ r.cart.current_rom_bank % 32 = cart.current_rom_bank % 32
                      /\ r.cart.current_rom_bank \div 32 = v % 4
                      /\ r.cart.current_ram_bank = cart.current_ram_bank
                 ELSE /\ r.cart.current_ram_bank = v % 4
                      /\ r.cart.current_rom_bank = cart.current_rom_bank

\* C17 witness: a type-1 cartridge in RAM-banking mode with RAM bank 3,
\* whose ROM bank has bits 5-6 set from an earlier write in mode 0.
C17_Witness ==
    /\ cart.ok /\ cart.mbc_type = "Mbc1" /\ nops = 3
    /\ cart.banking_mode = 1
    /\ cart.current_ram_bank = 3
    /\ cart.current_rom_bank = 3 * 32 + 1

\* C18: for controller type-2, address bit 8 alone decides the effect of a
\* write in 0x0000-0x3FFF: with bit 8 clear the write sets the RAM-enabled
\* flag (true iff the low nibble of the value is 0xA) and leaves the ROM
\* bank unchanged; with bit 8 set it sets the ROM bank to value & 0x0F,
\* 0 coerced to 1, and leaves the RAM-enabled flag unchanged.
C18_Mbc2AddressBit8 ==
    (Live /\ cart.mbc_type = "Mbc2") =>
        \A a \in { x \in CartAddrs : x \in \h0000 .. \h3FFF }, v \in BankSelectValues :
            LET r == write(cart, a, v) IN
            /\ ~r.panic
            /\ IF (a \div 256) % 2 = 0
               THEN /\ r.cart.ram_enabled = (v % 16 = 10)
                    /\ r.cart.current_rom_bank = cart.current_rom_bank
               ELSE /\ r.cart.current_rom_bank = (IF v % 16 = 0 THEN 1 ELSE v % 16)
                    /\ r.cart.ram_enabled = cart.ram_enabled

\* C18 witness: a type-2 cartridge with RAM enabled and ROM bank 5 after
\* two writes.
C18_Witness ==
    /\ cart.ok /\ cart.mbc_type = "Mbc2" /\ nops = 2
    /\ cart.ram_enabled
    /\ cart.current_rom_bank = 5

\* C19: controller type-2 has a built-in 512 x 4-bit RAM: with RAM enabled,
\* a write of v at window offset k < 0x200 stores v & 0x0F and a following
\* read of that address returns v & 0x0F; at window offsets >= 0x200 a
\* write changes nothing and a read touches no RAM storage, returning what
\* it returns from a cartridge without storage.
C19_Mbc2BuiltInRam ==
    (Live /\ cart.mbc_type = "Mbc2" /\ cart.ram_enabled) =>
        \A a \in ExtRamAddrs, v \in CartValues :
            LET r == write(cart, a, v) IN
            IF a - \hA000 < \h200
            THEN ~r.panic /\ read(r.cart, a) = v % 16
            ELSE /\ r = Done(cart)
                 /\ read(cart, a) = read([cart EXCEPT !.ram_len = 0,
                                                       !.ram_data = EmptyArr], a)

\* C20: for controller type-3, a write of v to 0x2000-0x3FFF sets the ROM
\* bank to v & 0x7F, 0 coerced to 1; a write of v in 0..3 to 0x4000-0x5FFF
\* sets the RAM bank to v; a write of any other value to 0x4000-0x5FFF and
\* every write to 0x6000-0x7FFF leave the whole cartridge unchanged.
C20_Mbc3Windows ==
    (Live /\ cart.mbc_type = "Mbc3") =>
        /\ \A a \in { x \in CartAddrs : x \in \h2000 .. \h3FFF }, v \in BankSelectValues :
              LET r == write(cart, a, v) IN
              /\ ~r.panic
              /\ r.cart.current_rom_bank = (IF v % 128 = 0 THEN 1 ELSE v % 128)
        /\ \A a \in { x \in CartAddrs : x \in \h4000 .. \h5FFF },
              v \in CartValues \cup (\h00 .. \h0D) :
              LET r == write(cart, a, v) IN
              IF v \in 0 .. 3
              THEN ~r.panic /\ r.cart = [cart EXCEPT !.current_ram_bank = v]
              ELSE r = Done(cart)
        /\ \A a \in { x \in CartAddrs : x \in \h6000 .. \h7FFF }, v \in CartValues :
              write(cart, a, v) = Done(cart)

\* C20 witness: a type-3 cartridge on which a write of 0x20 selected ROM
\* bank 32 and a write of 3 selected RAM bank 3.
C20_Witness ==
    /\ cart.ok /\ cart.mbc_type = "Mbc3" /\ nops = 2
    /\ cart.current_rom_bank = 32
    /\ cart.current_ram_bank = 3

\* C21: for controller type-5 the ROM bank is a 9-bit number whose low
\* byte is the last value written to 0x2000-0x2FFF (1 before any) and
\* whose bit 8 is bit 0 of the last value written to 0x3000-0x3FFF (0
\* before any): a freshly built cartridge has bank 1, a write to the low
\* window replaces the low byte and keeps bit 8, a write to the high window
\* replaces bit 8 and keeps the low byte, a write anywhere else keeps the
\* bank, and writing l and h in either order gives ((h & 1) << 8) | l.
Mbc5LowAddrs  == { a \in CartAddrs : a \in \h2000 .. \h2FFF }
Mbc5HighAddrs == { a \in CartAddrs : a \in \h3000 .. \h3FFF }

C21_Mbc5NineBitBank ==
    (Live /\ cart.mbc_type = "Mbc5") =>
        /\ nops = 0 => cart.current_rom_bank = 1
        /\ cart.current_rom_bank \in 0 .. 511
        /\ \A v \in BankSelectValues :
              /\ \A a \in Mbc5LowAddrs :
                    /\ ~write(cart, a, v).panic
                    /\ write(cart, a, v).cart.current_rom_bank =
                           (cart.current_rom_bank \div 256) * 256 + v
              /\ \A a \in Mbc5HighAddrs :
                    /\ ~write(cart, a, v).panic
                    /\ write(cart, a, v).cart.current_rom_bank =
                           (v % 2) * 256 + (cart.current_rom_bank % 256)
        /\ \A a \in CartAddrs \ (Mbc5LowAddrs \cup Mbc5HighAddrs), v \in CartValues :
              write(cart, a, v).cart.current_rom_bank = cart.current_rom_bank
        /\ \A l \in CartValues, h \in CartValues :
              /\ write(write(cart, \h2FFF, l).cart, \h3000, h).cart.current_rom_bank =
                     (h % 2) * 256 + l
              /\ write(write(cart, \h3FFF, h).cart, \h2000, l).cart.current_rom_bank =
                     (h % 2) * 256 + l

\* C21 witness: a type-5 cartridge whose bank has bit 8 set and a low byte
\* other than the initial 1, both left by writes.
C21_Witness ==
    /\ Live /\ cart.mbc_type = "Mbc5"
    /\ nops >= 2
    /\ cart.current_rom_bank = 256 + \h05

(***************************************************************************)
(* Claims about the audio engine, checked under SpecApu (the engine run    *)
(* from Apu::new) and SpecMix (one sample from drawn channel settings).    *)
(***************************************************************************)

\* C22: the audio buffer position becomes zero only through clear_buffer:
\* no step that takes the position from a non-zero value to zero is
\* anything but a clear_buffer call, which leaves the cycle counter alone.
C22_PositionResetOnlyByClear ==
    [][ (apu.buffer_pos # 0 /\ apu'.buffer_pos = 0) =>
            (apu' = clear_buffer(apu) /\ apu'.cycles = apu.cycles) ]_vars

\* C23: every tick adds 44100 to the accumulator and generates at most one
\* sample; n ticks after Apu::new exactly floor(n * 44100 / 4194304)
\* samples have been generated, the first on tick 96, and the accumulator
\* is below 4194304 after every tick.
C23_SampleCadence ==
    /\ [](apu # [ok |-> FALSE] =>
            /\ emitted = samples_after(apu.cycles)
            /\ apu.sample_counter = counter_after(apu.cycles)
            /\ apu.sample_counter < CLOCK_RATE
            /\ (apu.cycles < 96 => emitted = 0)
            /\ (apu.cycles = 96 => emitted = 1))
    /\ [][ apu'.cycles # apu.cycles =>
            /\ apu'.cycles = apu.cycles + 1
            /\ emitted' \in {emitted, emitted + 1}
            /\ (emitted' = emitted =>
                    /\ apu'.sample_counter = apu.sample_counter + SAMPLE_RATE
                    /\ apu'.buffer_pos = apu.buffer_pos)
            /\ (emitted' = emitted + 1 =>
                    /\ apu'.sample_counter =
                           apu.sample_counter + SAMPLE_RATE - CLOCK_RATE
                    /\ apu'.buffer_pos = (apu.buffer_pos + 1) % BUFFER_SIZE) ]_vars

\* C23 witness: the second sample comes on tick 191, one tick less than 96
\* after the first, because the accumulator kept its remainder.
C23_Witness ==
    /\ apu # [ok |-> FALSE]
    /\ apu.cycles = 191 /\ emitted = 2 /\ apu.buffer_pos = 2
    /\ apu.sample_counter = 191 * SAMPLE_RATE - 2 * CLOCK_RATE

\* The sample Apu::generate_sample is to store for engine a: 0 with sound
\* disabled, otherwise the sum of the enabled channels' samples times the
\* master volume, divided by 4 and clamped to an i16.
enabled_sum(a, checks) ==
      (IF a.channel1.enabled THEN square_get_sample(a.channel1, checks).sample ELSE 0)
    + (IF a.channel2.enabled THEN square_get_sample(a.channel2, checks).sample ELSE 0)
    + (IF a.channel3.enabled THEN wave_get_sample(a.channel3, checks).sample ELSE 0)
    + (IF a.channel4.enabled THEN noise_get_sample(a.channel4, checks).sample ELSE 0)
mixed_sample(a, checks) ==
    IF ~a.sound_enabled THEN 0
    ELSE clamp(div_i32(enabled_sum(a, checks) * a.master_volume, 4), 0 - 32768, 32767)

\* C24: every step that generates a sample stores the mixed sample in the
\* slot at the current position, leaves every other slot as it was, and
\* advances the position by one.
C24_EmissionStoresMix ==
    [][ emitted' = emitted + 1 =>
            /\ Get(apu'.audio_buffer, apu.buffer_pos) = mixed_sample(apu, overflow_checks)
            /\ \A i \in (DOMAIN apu.audio_buffer \cup DOMAIN apu'.audio_buffer)
                            \ {apu.buffer_pos} :
                   Get(apu'.audio_buffer, i) = Get(apu.audio_buffer, i)
            /\ apu'.buffer_pos = apu.buffer_pos + 1 ]_vars

\* The shift-register value one noise emission is to leave from s: s
\* shifted right by one with bit 14 set to bit 0 XOR bit 1 of s and, in
\* short-width mode, bit 6 set to that same bit.
with_bit(x, n, b) == x - ((x \div (2 ^ n)) % 2) * (2 ^ n) + b * (2 ^ n)
lfsr_emitted(s, short) ==
    LET x == ((s % 2) + ((s \div 2) % 2)) % 2
        t == with_bit(s \div 2, 14, x)
    IN IF short THEN with_bit(t, 6, x) ELSE t

\* C25: every step in which the noise channel takes part in a generated
\* sample leaves its shift register at lfsr_emitted of the value before;
\* from the seed 0x7FFF, outside short-width mode, that is 0x3FFF.
C25_NoiseLfsrStep ==
    [][ (emitted' = emitted + 1 /\ apu.sound_enabled /\ apu.channel4.enabled) =>
            /\ apu'.channel4.lfsr =
                   lfsr_emitted(apu.channel4.lfsr, apu.channel4.width_mode)
            /\ (apu.channel4.lfsr = \h7FFF /\ ~apu.channel4.width_mode) =>
                   apu'.channel4.lfsr = \h3FFF ]_vars

\* C26: a square channel whose current volume is 0 gives the sample 0,
\* whatever its duty-cycle setting, frequency and phase.
C26_SilentSquare ==
    apu # [ok |-> FALSE] =>
        \A c \in {apu.channel1, apu.channel2} :
            c.current_volume = 0 =>
                /\ ~square_get_sample(c, overflow_checks).panic
                /\ square_get_sample(c, overflow_checks).sample = 0

\* C26 witness: a sample generated from an enabled square channel at
\* current volume 0 whose duty-cycle setting names no pattern; the slot
\* written holds 0.
C26_Witness ==
    /\ apu # [ok |-> FALSE] /\ afault = NoFault
    /\ emitted = 1
    /\ apu.sound_enabled /\ apu.channel1.enabled
    /\ apu.channel1.current_volume = 0
    /\ apu.channel1.duty_cycle = 255
    /\ apu.channel1.frequency = 65535
    /\ apu.buffer_pos = 0
    /\ Get(apu.audio_buffer, BUFFER_SIZE - 1) = 0

\* The number of set bits of a byte.
high_bits(x) == Cardinality({ n \in 0 .. 7 : (x \div (2 ^ n)) % 2 = 1 })

\* C27: a pulse channel with non-zero current volume and duty setting d in
\* 0..3 gives +volume * 512 when bit ((phase >> 16) & 7) of the d-th duty
\* pattern is set and -volume * 512 otherwise, and its phase then advances
\* by frequency * 8 modulo 2^32; the four patterns have 1, 2, 4 and 6 set
\* bits.
C27_PulseSample ==
    apu # [ok |-> FALSE] =>
        /\ [d \in 1 .. 4 |-> high_bits(duty_patterns[d])] = <<1, 2, 4, 6>>
        /\ \A c \in {apu.channel1, apu.channel2} :
              (c.current_volume # 0 /\ c.duty_cycle \in 0 .. 3) =>
                  LET r   == square_get_sample(c, overflow_checks)
                      set == (duty_patterns[c.duty_cycle + 1]
                                 \div (2 ^ (c.phase.hi % 8))) % 2 = 1
                      sum == c.phase.lo + c.frequency * 8
                  IN /\ ~r.panic
                     /\ r.sample = (IF set THEN c.current_volume * 512
                                    ELSE 0 - c.current_volume * 512)
                     /\ r.ch.phase = U32((c.phase.hi + (sum \div 65536)) % 65536,
                                         sum % 65536)

\* The number of frame-buffer writing steps in the first t ticks of a
\* frame: scanline n is rendered on tick n * 456 + 252, for n in 0..143.
renders_by(t) == IF (t + 204) \div 456 > LCD_HEIGHT THEN LCD_HEIGHT ELSE (t + 204) \div 456

\* C28: a step writes the frame buffer exactly when it moves the engine
\* from Drawing to HBlank; it then writes the 160 entries of the row of the
\* current scanline, which is a visible one, and no other entry; this
\* happens once per visible scanline, 144 times in each frame of 70224
\* ticks, and never in VBlank.
C28_RenderOncePerScanline ==
    /\ [](renders = LCD_HEIGHT * (ticks \div 70224) + renders_by(ticks % 70224))
    /\ [][ ticks' # ticks =>
            /\ rendered' # {} <=> (ppu.mode = "Drawing" /\ ppu'.mode = "HBlank")
            /\ rendered' # {} =>
                  /\ ppu.scanline \in 0 .. LCD_HEIGHT - 1
                  /\ ppu'.scanline = ppu.scanline
                  /\ rendered' = { ppu.scanline * LCD_WIDTH + x : x \in 0 .. LCD_WIDTH - 1 }
                  /\ renders' = renders + 1
            /\ (ppu.mode = "VBlank" \/ ppu'.mode = "VBlank") => rendered' = {}
            /\ \A i \in (DOMAIN ppu.frame_buffer \cup DOMAIN ppu'.frame_buffer) \ rendered' :
                  Get(ppu'.frame_buffer, i) = Get(ppu.frame_buffer, i) ]_vars

\* C28 witness: the last visible scanline of the second frame has just
\* been rendered, the 288th rendering since construction.
C28_Witness ==
    /\ ticks = 70224 + 143 * 456 + 252
    /\ ppu.mode = "HBlank" /\ ppu.scanline = 143
    /\ rendered = { 143 * LCD_WIDTH + x : x \in 0 .. LCD_WIDTH - 1 }
    /\ renders = 2 * LCD_HEIGHT

(***************************************************************************)
(* Further claims about the address space, checked under SpecMmu.          *)
(***************************************************************************)

\* Addresses of the unused hole: its two ends and one inside.
HoleAddrs == { a \in MmuAddrs : a \in UNUSED_START .. UNUSED_END } \cup { \hFEC3 }

\* C29: every address of the unused hole 0xFEA0-0xFEFF reads 0xFF whatever
\* was written before, and a write to it changes nothing: the Mmu is the
\* same afterwards, so every read of every address returns what it did.
C29_UnusedHole ==
    mmu # [ok |-> FALSE] =>
        \A h \in HoleAddrs :
            /\ h \in \hFEA0 .. \hFEFF
            /\ read_byte(mmu, h) = \hFF
            /\ \A v \in MmuValues :
                  LET r == write_byte(mmu, h, v) IN
                  /\ ~r.panic
                  /\ r.mmu = mmu
                  /\ \A a \in MmuAddrs :
                        read_byte(r.mmu, a) = read_byte(mmu, a)

\* C29 witness: after writes that left the Mmu as constructed, a read
\* returned 0xFF, which on a zero-filled Mmu only the hole gives.
C29_Witness ==
    /\ mops >= 1
    /\ mmu = MmuNew
    /\ mlast = [op |-> "read", value |-> \hFF]
    /\ \A a \in MmuAddrs : read_byte(mmu, a) = \hFF <=> a \in HoleAddrs

\* C30: the word helpers are little-endian pairs of the byte primitives and
\* complete at every address, 0xFFFF included: read_word(a) is
\* read_byte(a) | (read_byte(a + 1) << 8), and write_word(a, w) leaves what
\* write_byte(a, w & 0xFF) followed by write_byte(a + 1, w >> 8) leaves.
C30_WordHelpers ==
    \A a \in WordAddrs :
        /\ read_word(mmu, a, overflow_checks) # PANIC
        /\ a < \hFFFF =>
              read_word(mmu, a, overflow_checks) =
                  read_byte(mmu, a) + 256 * read_byte(mmu, a + 1)
        /\ \A w \in WordValues :
              LET r == write_word(mmu, a, w, overflow_checks) IN
              /\ ~r.panic
              /\ a < \hFFFF =>
                    r.mmu = write_byte(write_byte(mmu, a, w % 256).mmu,
                                       a + 1, w \div 256).mmu

(***************************************************************************)
(* Further claims about construction and the top-level emulator, checked   *)
(* under SpecLoad.                                                         *)
(***************************************************************************)

\* The capacities the size codes declare, in KB: RAM by the table of the
\* RAM-size code, ROM as 32KB shifted left by the ROM-size code.
DeclaredRamKB == <<0, 2, 8, 32, 128, 64>>
declared_rom_kb(code) == 32 * (2 ^ code)

\* C31: a constructed cartridge reports the sizes its header declares: the
\* RAM capacity of RAM-size codes 0x00..0x05 is 0, 2, 8, 32, 128, 64 KB,
\* and the reported ROM size is the one the ROM-size code at 0x148 names.
C31_InfoMatchesSizeCodes ==
    cart.ok =>
        /\ cart.header.ram_size \in 0 .. 5 =>
              /\ cart.ram_len = 1024 * DeclaredRamKB[cart.header.ram_size + 1]
              /\ get_info(cart).ram_size = DeclaredRamKB[cart.header.ram_size + 1]
        /\ cart.header.rom_size \in 0 .. 8 =>
              get_info(cart).rom_size = declared_rom_kb(cart.header.rom_size)

\* C32: a newly created emulator exposes an empty frame buffer and an
\* empty audio-sample list, and every step() call from there completes and
\* leaves both empty.
C32_GameBoyBuffersEmpty ==
    gb.op # "none" =>
        /\ gb.op = "new" =>
              /\ Len(gameboy_get_frame_buffer(GameBoyNew)) = 0
              /\ Len(gameboy_get_audio_samples(GameBoyNew)) = 0
        /\ gameboy_step(GameBoyNew) = GameBoyNew
        /\ gb.op = "step" => (Len(gb.frame) = 0 /\ Len(gb.audio) = 0)

\* C32 witness: three step() calls have been made, as in the repository's
\* test, and both buffers were empty after the last.
C32_Witness ==
    /\ gsteps = 3
    /\ gb = [op |-> "step", frame |-> <<>>, audio |-> <<>>]

(***************************************************************************)
(* Further claims about the video timing engine, checked under SpecPpu and *)
(* SpecPpuLive.                                                            *)
(***************************************************************************)

\* C33: in every state reached by stepping from Ppu::new the scanline is
\* in 0..153, and is_vblank() is true exactly when the mode is VBlank,
\* which is exactly when the scanline is in 144..153; is_vblank() reads
\* the mode and returns a boolean, changing nothing.
C33_ScanlineRangeAndVblank ==
    /\ ppu.scanline \in 0 .. 153
    /\ is_vblank(ppu) \in BOOLEAN
    /\ is_vblank(ppu) <=> ppu.mode = "VBlank"
    /\ ppu.mode = "VBlank" <=> ppu.scanline \in 144 .. 153
    /\ is_vblank(ppu) <=> ppu.scanline >= LCD_HEIGHT

\* C33 witness: the last scanline, 153, in the second frame, with
\* is_vblank() true.
C33_Witness ==
    /\ ticks > 70224
    /\ ppu.scanline = 153 /\ ppu.mode = "VBlank" /\ is_vblank(ppu)

\* C34: the engine has no terminal state: while step() keeps being called
\* a step is always possible and changes the engine, and each of the four
\* modes is entered again and again, so VBlank and (scanline 0, OamScan)
\* both recur for ever.
C34_ModesRecur ==
    /\ [](Timing(step(ppu)) # Timing(ppu))
    /\ []<>(ppu.mode = "OamScan" /\ ppu.scanline = 0 /\ ppu.cycles = 0)
    /\ []<>(ppu.mode = "Drawing" /\ ppu.cycles = 0)
    /\ []<>(ppu.mode = "HBlank" /\ ppu.cycles = 0)
    /\ []<>(is_vblank(ppu) /\ ppu.scanline = LCD_HEIGHT /\ ppu.cycles = 0)

\* C34 witness: the last state of a frame, from which the next step enters
\* OamScan at scanline 0 again.
C34_Witness ==
    /\ ppu.mode = "VBlank" /\ ppu.scanline = 153 /\ ppu.cycles = 455
    /\ step(ppu).mode = "OamScan" /\ step(ppu).scanline = 0
    /\ ticks = 0

(***************************************************************************)
(* A further claim about the cartridge controller, checked under SpecCart. *)
(***************************************************************************)

\* The low five bits a write of v to 0x2000-0x3FFF selects on type-1.
low_bank(v) == IF v % 32 = 0 THEN 1 ELSE v % 32

\* C35: for controller type-1 in ROM-banking mode the ROM bank is
\* (U << 5) | L, with U the low 2 bits of the last value written to
\* 0x4000-0x5FFF and L the zero-coerced low 5 bits of the last value
\* written to 0x2000-0x3FFF: a write to the low-bits window keeps the
\* upper bits, a write to the upper-bits window keeps the low bits, and
\* the two writes give the same bank in either order.
C35_Mbc1UpperBitsPersist ==
    (Live /\ cart.mbc_type = "Mbc1" /\ cart.banking_mode = 0) =>
        /\ \A v \in CartValues :
              /\ write(cart, \h2000, v).cart.current_rom_bank =
                     (cart.current_rom_bank \div 32) * 32 + low_bank(v)
              /\ write(cart, \h4000, v).cart.current_rom_bank =
                     (v % 4) * 32 + (cart.current_rom_bank % 32)
        /\ \A l \in CartValues, h \in CartValues :
              /\ write(write(cart, \h3FFF, l).cart, \h5FFF, h).cart.current_rom_bank =
                     (h % 4) * 32 + low_bank(l)
              /\ write(write(cart, \h4000, h).cart, \h2000, l).cart.current_rom_bank =
                     (h % 4) * 32 + low_bank(l)

(***************************************************************************)
(* A claim about the noise register, checked under SpecNoise.              *)
(***************************************************************************)

\* C36: from the seed 0x7FFF, after any sequence of noise samples and
\* width-mode changes, the shift register holds a value of 1..0x7FFF: it
\* never exceeds 15 bits and never becomes 0.
C36_LfsrNonZero15Bits ==
    apu.channel4.lfsr \in 1 .. \h7FFF

(***************************************************************************)
(* The frame of a byte write, checked under SpecFrame: the writes and     *)
(* loads of SpecMmu, which reach every Mmu that SpecMmu reaches.           *)
(***************************************************************************)

NextFrame == MmuWrite \/ MmuLoadRom

SpecFrame == InitMmu /\ [][NextFrame]_vars

\* The addresses a write can change: video RAM, external RAM, work RAM,
\* echo, OAM, I/O, high RAM and the interrupt-enable register.
Stored(a) == a \in \h8000 .. \hFE9F \/ a \in \hFF00 .. \hFFFF

\* The addresses that read the byte written at a: a itself and its
\* work-RAM / echo alias, when it has one.
aliases(a) ==
    {a} \cup (IF a \in \hC000 .. \hDDFF THEN {a + \h2000} ELSE {})
        \cup (IF a \in \hE000 .. \hFDFF THEN {a - \h2000} ELSE {})

\* C37: write_byte(a, v) changes what read_byte(b) returns only for b = a
\* and b the work-RAM / echo alias of a; every other address reads what it
\* did. For a in video RAM, external RAM, work RAM, echo, OAM, I/O, high
\* RAM or the interrupt-enable register, read_byte(a) returns v afterwards;
\* for a in a ROM window or the unused hole nothing changes. Stated of
\* every write_byte call that MmuWrite can make, in every state where it
\* can make one.
C37_WriteFrame ==
    (mmu # [ok |-> FALSE] /\ mlast.op # "panic" /\ mops < MaxMmuWrites) =>
        \A a \in MmuAddrs, v \in MmuValues :
            LET r == write_byte(mmu, a, v) IN
            /\ ~r.panic
            /\ ~Stored(a) => r.mmu = mmu
            /\ \A b \in MmuAddrs :
                  read_byte(r.mmu, b) =
                      IF Stored(a) /\ b \in aliases(a) THEN v ELSE read_byte(mmu, b)

\* C37 witness: one write of 0x5A to the echo address 0xE123 of a
\* zero-filled Mmu: the address and its work-RAM alias read 0x5A, and
\* every other address reads what it reads after construction.
C37_Witness ==
    /\ mops = 1 /\ mlast.op = "write"
    /\ mmu = write_byte(MmuNew, \hE123, \h5A).mmu
    /\ read_byte(mmu, \hE123) = \h5A /\ read_byte(mmu, \hC123) = \h5A
    /\ \A b \in MmuAddrs \ {\hE123, \hC123} : read_byte(mmu, b) = read_byte(MmuNew, b)

(***************************************************************************)
(* The width of the channel samples, checked under SpecMix.                *)
(***************************************************************************)

\* C38: the sample arithmetic of the three channel types stays within an
\* i16: a pulse or noise channel with current volume v gives exactly
\* +v * 512 or -v * 512, and a wave channel gives exactly 256 times the
\* wavetable entry it plays, for every byte 0..255, with no wrap-around
\* and no arithmetic failure.
C38_SamplesFitI16 ==
    apu # [ok |-> FALSE] =>
        /\ \A c \in {apu.channel1, apu.channel2} :
              c.duty_cycle \in 0 .. 3 =>
                  LET r == square_get_sample(c, overflow_checks) IN
                  /\ ~r.panic
                  /\ r.sample \in {c.current_volume * 512, 0 - c.current_volume * 512}
        /\ LET r == noise_get_sample(apu.channel4, overflow_checks) IN
              /\ ~r.panic
              /\ r.sample = (IF apu.channel4.lfsr % 2 = 0
                             THEN apu.channel4.current_volume * 512
                             ELSE 0 - apu.channel4.current_volume * 512)
        /\ (apu.channel3.volume # 0 /\ apu.channel3.sample_index < 32) =>
              LET r == wave_get_sample(apu.channel3, overflow_checks) IN
              /\ ~r.panic
              /\ r.sample = 256 * Get(apu.channel3.wave_pattern, apu.channel3.sample_index)

====
